---- MODULE Spec2Model ----
(***************************************************************************)
(* A model of the MediaWiki dump to Parquet converter (langmod):           *)
(*   - the expat driven push scanner (mediawiki::Parser),                  *)
(*   - the element scoped listeners (Contributor, Revision, Page),         *)
(*   - the pull iterator (mediawiki::PageReader),                          *)
(*   - the single job conversion loop Transform(istream, dst),             *)
(*   - the job queue and the worker pool of mediawiki2parquet.             *)
(*                                                                         *)
(* Strings that the code concatenates or parses are sequences of one       *)
(* character strings; std::optional<T> is a sequence of length 0 or 1.     *)
(***************************************************************************)
EXTENDS Integers, Sequences, FiniteSets, TLC

----------------------------------------------------------------------------
(* Bounds of the model.                                                    *)

\* Pages per generated document.
MaxPages == 2
\* Revisions per generated page.
MaxRevs == 2
\* Largest of the small read-chunk sizes tried besides the default one.
MaxBuf == 2
\* Largest length of the document's last, partial chunk that is tried.
MaxTail == 2
\* Calls of PageReader::Next a client makes after Next returned false.
MaxExtraCalls == 2

\* Default chunk size of Parser (std::size_t buflen = 4096).
kBufLen == 4096

----------------------------------------------------------------------------
(* Values.                                                                 *)

None == <<>>
Some(v) == <<v>>

Min(a, b) == IF a < b THEN a ELSE b

Last(s) == s[Len(s)]

Front(s) == SubSeq(s, 1, Len(s) - 1)

IsSpace(c) == c \in {" ", "\n", "\t"}

IsDigit(c) == c \in {"0", "1", "2", "3", "4", "5", "6", "7", "8", "9"}

DigitVal(c) ==
    CASE c = "0" -> 0 [] c = "1" -> 1 [] c = "2" -> 2 [] c = "3" -> 3
      [] c = "4" -> 4 [] c = "5" -> 5 [] c = "6" -> 6 [] c = "7" -> 7
      [] c = "8" -> 8 [] c = "9" -> 9

\* Index of the first character of str at or after i that is not white space.
RECURSIVE SkipSpace(_, _)
SkipSpace(str, i) ==
    IF i <= Len(str) /\ IsSpace(str[i]) THEN SkipSpace(str, i + 1) ELSE i

\* Value of the longest run of digits of str that starts at i, from acc.
RECURSIVE DigitRun(_, _, _)
DigitRun(str, i, acc) ==
    IF i <= Len(str) /\ IsDigit(str[i])
    THEN DigitRun(str, i + 1, 10 * acc + DigitVal(str[i]))
    ELSE acc

\* util.cc ParseUInt64: strtoull(str, &end, 10), no value when nothing was
\* converted (end == str).  Leading white space and one '+' are skipped, the
\* digits that follow are converted and whatever follows them is ignored.
\* (The texts of the model are short and carry no '-'.)
ParseUInt64(str) ==
    LET i == SkipSpace(str, 1)
        j == IF i <= Len(str) /\ str[i] = "+" THEN i + 1 ELSE i
    IN  IF j <= Len(str) /\ IsDigit(str[j])
        THEN Some(DigitRun(str, j, 0))
        ELSE None

\* util.cc ParseTimestampLong / ParseTimestampShort: std::get_time against
\* one layout.  A text of the model holds a date-time as a layout glyph
\* ("ISO" for %Y-%m-%dT%H:%M:%SZ, "CMP" for %Y%m%d%H%M%S) followed by a digit
\* naming the instant; get_time fails when the text does not start in the
\* layout asked for and ignores what follows the match.
ParseTimestampFmt(str, fmt) ==
    IF Len(str) >= 2 /\ str[1] = fmt /\ IsDigit(str[2])
    THEN Some(1000 * (DigitVal(str[2]) + 1))
    ELSE None

\* util.cc ParseTimestamp: the long layout first, then the compact one.
ParseTimestamp(str) ==
    IF ParseTimestampFmt(str, "ISO") # None
    THEN ParseTimestampFmt(str, "ISO")
    ELSE ParseTimestampFmt(str, "CMP")

\* Whether the string lst holds the string x (attribute scan).
Holds(lst, x) == \E i \in 1..Len(lst) : lst[i] = x

----------------------------------------------------------------------------
(* Value types of wiki.h.                                                  *)

NewContributor ==
    [username |-> None, id |-> None, ip |-> None, deleted |-> FALSE]

NewRevision ==
    [id |-> 0, parent_id |-> None, timestamp |-> 0,
     contributor |-> NewContributor, minor |-> FALSE, comment |-> None,
     model |-> <<>>, format |-> <<>>, text |-> <<>>, sha1 |-> <<>>]

NewPage ==
    [title |-> <<>>, ns |-> 0, id |-> 0, redirect |-> None,
     restrictions |-> None, revisions |-> <<>>]

\* Listener objects as constructed.
NewContributorListener ==
    [state |-> "ContributorBegin", text |-> <<>>, contributor |-> NewContributor]

NewRevisionListener ==
    [state |-> "RevisionBegin", text |-> <<>>, revision |-> NewRevision,
     contrib |-> NewContributorListener]

NewPageListener ==
    [depth |-> 0, state |-> "PageBegin", text |-> <<>>, page |-> NewPage,
     rev |-> NewRevisionListener]

----------------------------------------------------------------------------
(* ContributorListener.                                                    *)

Contributor_HandleCharacterData(c, text) ==
    IF c.state \in {"Username", "ID", "IP"}
    THEN [c EXCEPT !.text = @ \o text]
    ELSE c

\* case State::IP of HandleElementBegin and what it falls through to.
Contributor_Begin_IP(c, elem) ==
    IF elem = "ip"
    THEN [c EXCEPT !.text = <<>>]
    ELSE [c EXCEPT !.state = "ContributorEnd"]

Contributor_Begin_ID(c, elem) ==
    IF elem = "id"
    THEN [c EXCEPT !.text = <<>>]
    ELSE Contributor_Begin_IP([c EXCEPT !.state = "IP"], elem)

Contributor_Begin_Username(c, elem) ==
    IF elem = "username"
    THEN [c EXCEPT !.text = <<>>]
    ELSE Contributor_Begin_ID([c EXCEPT !.state = "ID"], elem)

Contributor_HandleElementBegin(c, elem, attrs) ==
    CASE c.state = "ContributorBegin" ->
            IF elem = "contributor"
            THEN [c EXCEPT !.state = "Username",
                           !.contributor =
                               [NewContributor EXCEPT
                                   !.deleted = Holds(attrs, "deleted")]]
            ELSE c
      [] c.state = "Username" -> Contributor_Begin_Username(c, elem)
      [] c.state = "ID" -> Contributor_Begin_ID(c, elem)
      [] c.state = "IP" -> Contributor_Begin_IP(c, elem)
      [] OTHER -> c

Contributor_End_ContributorEnd(c, elem) ==
    IF elem = "contributor"
    THEN [c EXCEPT !.state = "ContributorBegin"]
    ELSE c

Contributor_End_IP(c, elem) ==
    IF elem = "ip"
    THEN [c EXCEPT !.contributor.ip = Some(c.text),
                   !.state = "ContributorEnd"]
    ELSE Contributor_End_ContributorEnd(
             [c EXCEPT !.state = "ContributorEnd"], elem)

\* case State::ID of HandleElementEnd as in langmod/wiki.h, where an id
\* that parses leaves the state at ID.
Contributor_End_ID_StaysID(c, elem) ==
    IF elem = "id"
    THEN IF ParseUInt64(c.text) # None
         THEN [c EXCEPT !.contributor.id = ParseUInt64(c.text)]
         ELSE c
    ELSE Contributor_End_IP([c EXCEPT !.state = "IP"], elem)

Contributor_End_ID(c, elem) ==
    IF elem = "id"
    THEN IF ParseUInt64(c.text) # None
         THEN [c EXCEPT !.contributor.id = ParseUInt64(c.text),
                        !.state = "IP"]
         ELSE c
    ELSE Contributor_End_IP([c EXCEPT !.state = "IP"], elem)

Contributor_End_Username(c, elem) ==
    IF elem = "username"
    THEN [c EXCEPT !.contributor.username = Some(c.text), !.state = "ID"]
    ELSE Contributor_End_ID([c EXCEPT !.state = "ID"], elem)

Contributor_HandleElementEnd(c, elem) ==
    CASE c.state = "Username" -> Contributor_End_Username(c, elem)
      [] c.state = "ID" -> Contributor_End_ID(c, elem)
      [] c.state = "IP" -> Contributor_End_IP(c, elem)
      [] c.state = "ContributorEnd" -> Contributor_End_ContributorEnd(c, elem)
      [] OTHER -> c

----------------------------------------------------------------------------
(* RevisionListener.                                                       *)

Revision_HandleCharacterData(r, text) ==
    IF r.state \in {"ID", "ParentID", "Timestamp", "Minor", "Comment",
                    "Model", "Format", "Text", "SHA1"}
    THEN [r EXCEPT !.text = @ \o text]
    ELSE IF r.state = "Contributor"
    THEN [r EXCEPT !.contrib = Contributor_HandleCharacterData(@, text)]
    ELSE r

\* case State::Timestamp of HandleElementBegin.
Revision_Begin_Timestamp(r, elem) ==
    IF elem = "timestamp" THEN [r EXCEPT !.text = <<>>] ELSE r

\* case State::ParentID, which falls through to case State::Timestamp on
\* either branch.
Revision_Begin_ParentID(r, elem) ==
    IF elem = "parentid"
    THEN Revision_Begin_Timestamp([r EXCEPT !.text = <<>>], elem)
    ELSE Revision_Begin_Timestamp([r EXCEPT !.state = "Timestamp"], elem)

Revision_Begin_Model(r, elem) ==
    IF elem = "model"
    THEN [r EXCEPT !.state = "Model", !.text = <<>>]
    ELSE r

Revision_Begin_Comment(r, elem) ==
    IF elem = "comment"
    THEN [r EXCEPT !.state = "Comment", !.text = <<>>]
    ELSE Revision_Begin_Model(r, elem)

\* case State::Minor without its fall-through to case State::Comment.
Revision_Begin_Minor_NoFallThrough(r, elem) ==
    IF elem = "minor" THEN [r EXCEPT !.text = <<>>] ELSE r

Revision_Begin_Minor(r, elem) ==
    IF elem = "minor"
    THEN [r EXCEPT !.text = <<>>]
    ELSE Revision_Begin_Comment(r, elem)

Revision_HandleElementBegin(r, elem, attrs) ==
    CASE r.state = "RevisionBegin" ->
            IF elem = "revision"
            THEN [r EXCEPT !.state = "ID", !.revision = NewRevision]
            ELSE r
      [] r.state = "ID" ->
            IF elem = "id" THEN [r EXCEPT !.text = <<>>] ELSE r
      [] r.state = "ParentID" -> Revision_Begin_ParentID(r, elem)
      [] r.state = "Timestamp" -> Revision_Begin_Timestamp(r, elem)
      [] r.state = "ContributorBegin" ->
            IF elem = "contributor"
            THEN [r EXCEPT !.state = "Contributor",
                           !.contrib =
                               Contributor_HandleElementBegin(@, elem, attrs)]
            ELSE r
      [] r.state = "Contributor" ->
            [r EXCEPT !.contrib =
                          Contributor_HandleElementBegin(@, elem, attrs)]
      [] r.state = "Minor" -> Revision_Begin_Minor(r, elem)
      [] r.state = "Comment" -> Revision_Begin_Comment(r, elem)
      [] r.state = "Model" -> Revision_Begin_Model(r, elem)
      [] r.state = "Format" ->
            IF elem = "format" THEN [r EXCEPT !.text = <<>>] ELSE r
      [] r.state = "Text" ->
            \* text_.reserve(bytes) changes the capacity only.
            IF elem = "text" THEN [r EXCEPT !.text = <<>>] ELSE r
      [] r.state = "SHA1" ->
            IF elem = "sha1" THEN [r EXCEPT !.text = <<>>] ELSE r
      [] OTHER -> r

\* case State::ContributorEnd of HandleElementEnd, also the tail of case
\* State::Contributor.
Revision_End_ContributorEnd(r, elem) ==
    IF elem = "contributor"
    THEN [r EXCEPT !.revision.contributor = r.contrib.contributor,
                   !.state = "Minor"]
    ELSE r

Revision_HandleElementEnd(r, elem) ==
    CASE r.state = "ID" ->
            IF ParseUInt64(r.text) # None
            THEN [r EXCEPT !.revision.id = ParseUInt64(r.text)[1],
                           !.state = "ParentID"]
            ELSE r
      [] r.state = "ParentID" ->
            IF ParseUInt64(r.text) # None
            THEN [r EXCEPT !.revision.parent_id = ParseUInt64(r.text),
                           !.state = "Timestamp"]
            ELSE r
      [] r.state = "Timestamp" ->
            IF ParseTimestamp(r.text) # None
            THEN [r EXCEPT !.revision.timestamp = ParseTimestamp(r.text)[1],
                           !.state = "ContributorBegin"]
            ELSE r
      [] r.state = "Contributor" ->
            Revision_End_ContributorEnd(
                [r EXCEPT !.contrib = Contributor_HandleElementEnd(@, elem)],
                elem)
      [] r.state = "ContributorEnd" -> Revision_End_ContributorEnd(r, elem)
      [] r.state = "Minor" ->
            [r EXCEPT !.revision.minor = TRUE, !.state = "Comment"]
      [] r.state = "Comment" ->
            [r EXCEPT !.revision.comment = Some(r.text), !.state = "Model"]
      [] r.state = "Model" ->
            IF elem = "model"
            THEN [r EXCEPT !.revision.model = r.text, !.state = "Format"]
            ELSE r
      [] r.state = "Format" ->
            [r EXCEPT !.revision.format = r.text, !.state = "Text"]
      [] r.state = "Text" ->
            [r EXCEPT !.revision.text = r.text, !.state = "SHA1"]
      [] r.state = "SHA1" ->
            [r EXCEPT !.revision.sha1 = r.text, !.state = "RevisionEnd"]
      [] r.state = "RevisionEnd" ->
            IF elem = "revision"
            THEN [r EXCEPT !.state = "RevisionBegin"]
            ELSE r
      [] OTHER -> r

----------------------------------------------------------------------------
(* PageListener.                                                           *)

Page_HandleCharacterData(p, text) ==
    IF p.state \in {"Title", "NS", "ID", "Redirect", "Restrictions"}
    THEN [p EXCEPT !.text = @ \o text]
    ELSE IF p.state = "Revision"
    THEN [p EXCEPT !.rev = Revision_HandleCharacterData(@, text)]
    ELSE p

\* The value after the first "title" among the attribute strings (the loop
\* of case State::Redirect compares names and values alike); no value when
\* there is none.  Attribute lists come in name/value pairs.
RedirectTitle(attrs) ==
    IF \E i \in 1..(Len(attrs) - 1) : attrs[i] = "title"
    THEN LET i == CHOOSE k \in 1..(Len(attrs) - 1) :
                      /\ attrs[k] = "title"
                      /\ \A m \in 1..(k - 1) : attrs[m] # "title"
         IN  Some(attrs[i + 1])
    ELSE None

Page_Begin_DiscussionThreadingInfoBegin(p, elem) ==
    IF elem = "discussionthreadinginfo"
    THEN [p EXCEPT !.state = "DiscussionThreadingInfo"]
    ELSE [p EXCEPT !.state = "PageEnd"]

Page_Begin_AltRevisionUpload(p, elem, attrs) ==
    IF elem = "revision"
    THEN [p EXCEPT !.state = "Revision",
                   !.rev = Revision_HandleElementBegin(@, elem, attrs)]
    ELSE IF elem = "upload"
    THEN [p EXCEPT !.state = "Upload"]
    ELSE Page_Begin_DiscussionThreadingInfoBegin(
             [p EXCEPT !.state = "DiscussionThreadingInfoBegin"], elem)

Page_Begin_Restrictions(p, elem, attrs) ==
    IF elem = "restrictions"
    THEN [p EXCEPT !.text = <<>>]
    ELSE Page_Begin_AltRevisionUpload(
             [p EXCEPT !.state = "AltRevisionUpload"], elem, attrs)

Page_Begin_Redirect(p, elem, attrs) ==
    IF elem = "redirect"
    THEN IF RedirectTitle(attrs) # None
         THEN [p EXCEPT !.page.redirect = RedirectTitle(attrs)]
         ELSE p
    ELSE Page_Begin_Restrictions(
             [p EXCEPT !.state = "Restrictions"], elem, attrs)

\* The switch of HandleElementBegin, before ++depth_.
Page_Begin_Switch(p, elem, attrs) ==
    CASE p.state = "PageBegin" ->
            IF elem = "page"
            THEN [p EXCEPT !.state = "Title", !.page = NewPage]
            ELSE p
      [] p.state = "Title" ->
            IF elem = "title" THEN [p EXCEPT !.text = <<>>] ELSE p
      [] p.state = "NS" ->
            IF elem = "ns" THEN [p EXCEPT !.text = <<>>] ELSE p
      [] p.state = "ID" ->
            IF elem = "id" THEN [p EXCEPT !.text = <<>>] ELSE p
      [] p.state = "Redirect" -> Page_Begin_Redirect(p, elem, attrs)
      [] p.state = "Restrictions" -> Page_Begin_Restrictions(p, elem, attrs)
      [] p.state = "AltRevisionUpload" ->
            Page_Begin_AltRevisionUpload(p, elem, attrs)
      [] p.state = "DiscussionThreadingInfoBegin" ->
            Page_Begin_DiscussionThreadingInfoBegin(p, elem)
      [] p.state = "Revision" ->
            [p EXCEPT !.rev = Revision_HandleElementBegin(@, elem, attrs)]
      [] OTHER -> p

\* A HandleElementBegin that does not clear page_ at <page>.
Page_HandleElementBegin_KeepsPage(p, elem, attrs) ==
    LET q == Page_Begin_Switch(p, elem, attrs)
    IN  [q EXCEPT !.depth = @ + 1,
                  !.page = IF p.state = "PageBegin" /\ elem = "page"
                           THEN p.page
                           ELSE q.page]

Page_HandleElementBegin(p, elem, attrs) ==
    [Page_Begin_Switch(p, elem, attrs) EXCEPT !.depth = @ + 1]

\* case State::RevisionEnd of HandleElementEnd, also the tail of case
\* State::Revision.
Page_End_RevisionEnd(p, elem) ==
    IF elem = "revision"
    THEN [p EXCEPT !.page.revisions = Append(@, p.rev.revision),
                   !.state = "AltRevisionUpload"]
    ELSE p

\* The switch of HandleElementEnd; suspend tells whether Parser::Suspend
\* was called.
Page_End_Switch(p, elem) ==
    CASE p.state = "Title" ->
            [l |-> [p EXCEPT !.page.title = p.text, !.state = "NS"],
             suspend |-> FALSE]
      [] p.state = "NS" ->
            [l |-> IF ParseUInt64(p.text) # None
                   THEN [p EXCEPT !.page.ns = ParseUInt64(p.text)[1],
                                  !.state = "ID"]
                   ELSE p,
             suspend |-> FALSE]
      [] p.state = "ID" ->
            [l |-> IF ParseUInt64(p.text) # None
                   THEN [p EXCEPT !.page.id = ParseUInt64(p.text)[1],
                                  !.state = "Redirect"]
                   ELSE p,
             suspend |-> FALSE]
      [] p.state = "Redirect" ->
            [l |-> [p EXCEPT !.state = "Restrictions"], suspend |-> FALSE]
      [] p.state = "Restrictions" ->
            [l |-> [p EXCEPT !.page.restrictions = Some(p.text),
                             !.state = "AltRevisionUpload"],
             suspend |-> FALSE]
      [] p.state = "Revision" ->
            [l |-> Page_End_RevisionEnd(
                       [p EXCEPT !.rev = Revision_HandleElementEnd(@, elem)],
                       elem),
             suspend |-> FALSE]
      [] p.state = "RevisionEnd" ->
            [l |-> Page_End_RevisionEnd(p, elem), suspend |-> FALSE]
      [] p.state \in {"Upload", "UploadEnd"} ->
            [l |-> IF elem = "upload"
                   THEN [p EXCEPT !.state = "AltRevisionUpload"]
                   ELSE p,
             suspend |-> FALSE]
      [] p.state \in {"DiscussionThreadingInfo",
                      "DiscussionThreadingInfoEnd"} ->
            [l |-> IF elem = "discussionthreadinginfo"
                   THEN [p EXCEPT !.state = "PageEnd"]
                   ELSE p,
             suspend |-> FALSE]
      [] p.state = "PageEnd" ->
            IF elem = "page"
            THEN [l |-> [p EXCEPT !.state = "PageBegin"], suspend |-> TRUE]
            ELSE [l |-> p, suspend |-> FALSE]
      [] OTHER -> [l |-> p, suspend |-> FALSE]

\* HandleElementEnd: the depth test first, then the switch.
Page_HandleElementEnd(p, elem) ==
    LET q == [p EXCEPT !.depth = @ - 1]
    IN  IF q.depth = 1 /\ elem = "page"
        THEN [l |-> [q EXCEPT !.state = "PageBegin"], suspend |-> TRUE]
        ELSE Page_End_Switch(q, elem)

----------------------------------------------------------------------------
(* Input documents: the events expat reports for a dump, one per token.    *)

\* Element begin (name, attributes as alternating name/value strings).
EB(n, a) == [t |-> "B", n |-> n, a |-> a, s |-> <<>>]
\* Element end.
EE(n) == [t |-> "E", n |-> n, a |-> <<>>, s |-> <<>>]
\* Character data.
EC(s) == [t |-> "C", n |-> "", a |-> <<>>, s |-> s]
\* A token that is not well-formed XML.
EX == [t |-> "X", n |-> "", a |-> <<>>, s |-> <<>>]

Leaf(n, s) == <<EB(n, <<>>), EC(s), EE(n)>>

Digit(k) == <<"0", "1", "2", "3", "4", "5", "6", "7", "8", "9">>[k + 1]

\* The concatenation of ss[i], ..., ss[Len(ss)].
RECURSIVE FlattenFrom(_, _)
FlattenFrom(ss, i) ==
    IF i > Len(ss) THEN <<>> ELSE ss[i] \o FlattenFrom(ss, i + 1)

Flatten(ss) == FlattenFrom(ss, 1)

SiteInfoXml ==
    <<EB("siteinfo", <<>>)>> \o Leaf("sitename", <<"W">>)
        \o Leaf("dbname", <<"w">>) \o <<EE("siteinfo")>>

\* A revision in schema order: with every optional child ("full") or with
\* none of them ("lean").  Character data may arrive in several pieces.
RevisionXml(j, style) ==
    IF style = "full"
    THEN <<EB("revision", <<>>)>>
             \o Leaf("id", <<Digit(j)>>)
             \o Leaf("parentid", <<"7">>)
             \o Leaf("timestamp", <<"ISO", Digit(j)>>)
             \o <<EB("contributor", <<>>)>> \o Leaf("username", <<"u">>)
             \o Leaf("id", <<"5">>) \o <<EE("contributor")>>
             \o <<EB("minor", <<>>), EE("minor")>>
             \o Leaf("comment", <<"c">>)
             \o Leaf("model", <<"m">>)
             \o Leaf("format", <<"f">>)
             \o <<EB("text", <<"bytes", "2">>), EC(<<"a">>), EC(<<Digit(j)>>),
                  EE("text")>>
             \o Leaf("sha1", <<"s">>)
             \o <<EE("revision")>>
    ELSE <<EB("revision", <<>>)>>
             \o Leaf("id", <<Digit(j)>>)
             \o Leaf("timestamp", <<"CMP", Digit(j)>>)
             \o <<EB("contributor", <<>>)>> \o Leaf("ip", <<"i">>)
             \o <<EE("contributor")>>
             \o Leaf("model", <<"m">>)
             \o Leaf("format", <<"f">>)
             \o Leaf("text", <<"b", Digit(j)>>)
             \o Leaf("sha1", <<"s">>)
             \o <<EE("revision")>>

OtherStyle(style) == IF style = "full" THEN "lean" ELSE "full"

\* Page number k (title Pk, id k) with n revisions numbered 1..n.
PageXml(k, n, style) ==
    <<EB("page", <<>>)>>
        \o Leaf("title", <<"P", Digit(k)>>)
        \o Leaf("ns", <<"0">>)
        \o Leaf("id", <<Digit(k)>>)
        \o (IF style = "full"
            THEN <<EB("redirect", <<"title", "T">>), EE("redirect")>>
                     \o Leaf("restrictions", <<"r">>)
            ELSE <<>>)
        \o Flatten([j \in 1..n |->
                       RevisionXml(j, IF j % 2 = 1 THEN style
                                      ELSE OtherStyle(style))])
        \o <<EE("page")>>

\* A document: revs[k] revisions in page k, pages alternating in style.
\* damage "junk" puts a malformed token after page cut, damage "trunc" ends
\* the file after page cut (cut = 0: right after <siteinfo>).
DocXml(revs, style, damage, cut) ==
    LET pages(m) ==
            Flatten([k \in 1..m |->
                        PageXml(k, revs[k], IF k % 2 = 1 THEN style
                                            ELSE OtherStyle(style))])
        head == <<EB("mediawiki", <<>>)>> \o SiteInfoXml
    IN  CASE damage = "none" ->
                head \o pages(Len(revs)) \o <<EE("mediawiki")>>
          [] damage = "junk" ->
                head \o pages(cut) \o <<EX>>
                    \o Flatten([k \in 1..(Len(revs) - cut) |->
                                   PageXml(cut + k, revs[cut + k], style)])
                    \o <<EE("mediawiki")>>
          [] damage = "trunc" -> head \o pages(cut)

\* Sequences over S of length at most n.
SeqUpTo(S, n) == UNION {[1..m -> S] : m \in 0..n}

\* The documents a reader is run on, with the empty file.
Documents ==
    {<<>>} \cup
    {DocXml(revs, style, "none", 0) :
        revs \in SeqUpTo(0..MaxRevs, MaxPages), style \in {"full", "lean"}}
    \cup
    UNION {{DocXml(revs, "full", damage, cut) :
               damage \in {"junk", "trunc"}, cut \in 0..Len(revs)} :
           revs \in SeqUpTo(0..MaxRevs, MaxPages)}

\* Chunk sizes: a few small ones, and the default.
BufLens == (1..MaxBuf) \cup {kBufLen}

\* Number of closing tags named n in d.
CountEnds(d, n) == Cardinality({i \in 1..Len(d) : d[i].t = "E" /\ d[i].n = n})

\* Whether d is a well-formed dump (one of the undamaged documents).
WellFormed(d) == d # <<>> /\ Last(d) = EE("mediawiki")
                     /\ \A i \in 1..Len(d) : d[i].t # "X"

----------------------------------------------------------------------------
(* State.                                                                  *)

VARIABLES
    \* The source file: its events, the bytes before the first event (XML
    \* declaration, comments, white space: they raise no event) and the
    \* chunk size the Parser was constructed with.  Every event token
    \* takes one byte of the stream.
    doc, pad, buflen,
    \* Parser::is_: bytes read so far and the stream's eofbit.
    is_,
    \* Parser::parser_, the expat parser: parsing status, finalBuffer,
    \* bytes fed, bytes parsed, whether an error was raised, open elements,
    \* whether the root element was closed.
    parser_,
    \* Where the scanner is: "idle" (outside Walk/Resume), "read" (Parse is
    \* about to read a chunk), "events" (expat is processing its buffer).
    ppc,
    \* Whether expat was entered by XML_Parse ("parse") or XML_ResumeParser
    \* ("resume").
    via,
    \* The last XML_Status a call of expat returned ("NONE" before any).
    status,
    \* PageReader::listener_ (the PageListener with its RevisionListener).
    listener_,
    \* PageReader::state_ and PageReader::page_.
    state_, page_,
    \* Transform(istream, dst): position of the loop ("loop": about to
    \* call Next, "got": Next returned, "done": the loop has ended), the
    \* value Next returned last, the rows written and the local count.
    tpc, ret, rows, count,
    \* History: for each true return of Next, the number of </page> events
    \* delivered before it (the ordinal of the page it exposes); </page>
    \* events delivered; calls of Walk or Resume; state_ at the last call
    \* of Next; calls of Next made after the loop ended.
    yields, pageEnds, scans, callState, extraCalls,
    \* The job queue: Queue::queue_, Queue::closed_, the holder of
    \* Queue::mutex_ (0: free, w + 1: thread w).
    queue_, closed_, mutex_,
    \* Threads: the position of each, the value each read with front(),
    \* what the last Dequeue of each returned.
    wpc, job, got,
    \* Driver of Transform(srcs, dsts, nothreads): its position, the
    \* number of jobs, the local nothreads, the loop variable, and whether
    \* the process was ended by std::terminate.
    dpc, nojobs, nothreads, it, terminated,
    \* History of the pool: per job, how often a Dequeue returned it and
    \* how its conversion ended; per thread, whether it has been
    \* through a failed conversion; the items a producer has enqueued.
    taken, outcome, fails, sent

readerVars ==
    <<doc, pad, buflen, is_, parser_, ppc, via, status, listener_, state_,
      page_, tpc, ret, rows, count, yields, pageEnds, scans, callState,
      extraCalls>>

poolVars ==
    <<queue_, closed_, mutex_, wpc, job, got, dpc, nojobs, nothreads, it,
      terminated, taken, outcome, fails, sent>>

VARIABLES
    \* The compressed file: the uncompressed bytes, the symbols of the
    \* file, and whether an allocation of the decoder fails.
    plain, src, oom,
    \* The size of the scanner's reads and the capacity of src_buf_.
    rsize, bufsize,
    \* ibz2streambuf::is_, the stream of the compressed file: symbols read
    \* so far and its eofbit.
    ifs,
    \* ibz2streambuf::src_buf_, ibz2streambuf::bs_ (next_in as an offset
    \* into src_buf_, avail_in, and the decoder behind bs_.state) and
    \* ibz2streambuf::state_.
    src_buf_, bs_, bz_state_,
    \* The std::istream over the adapter: its eofbit and the number of
    \* reads made on it.
    bzin,
    \* A call of xsgetn: its position, rest, and the bytes written to the
    \* caller's buffer.
    xpc, rest, out,
    \* History of the adapter: all bytes delivered, the symbols the
    \* decoder has consumed, the last code the decoder returned and the
    \* bytes that call produced, the last result of read_chunk and the
    \* size it was asked for, the state_ at the start of the last call of
    \* xsgetn, and the bytes kept and read by the last refill.
    delivered, seen, err, diff, result, req, bzCallState, refilled

bzVars ==
    <<plain, src, oom, rsize, bufsize, ifs, src_buf_, bs_, bz_state_, bzin,
      xpc, rest, out, delivered, seen, err, diff, result, req, bzCallState,
      refilled>>

VARIABLES
    \* main: the argument vector, the Options that ParseOptions returned,
    \* the position of Run, its return value and what it wrote.
    args, opts, rpc, exitcode, printed,
    \* The source file (whether it can be opened, and its first bytes) and
    \* the file type Transform(src, dst) has treated it as.
    srcfile, treated

cliVars == <<args, opts, rpc, exitcode, printed, srcfile, treated>>

VARIABLES
    \* ibz2streambuf's get area: the bytes of get_buf_ and the offsets of
    \* gptr() and egptr() from eback().
    get_,
    \* ibz2streambuf::is_: whether badbit is set, the number of reads of
    \* the file that succeed before the device fails (None: all do), and
    \* the reads made so far.
    ifsbad, fault, srcreads,
    \* The client of the adapter: what it calls ("bytes": sbumpc only,
    \* "bulk": sgetn only, "mixed": both), the call in progress, the size
    \* the last sgetn asked for and the count it returned, and whether a
    \* call has reported the end of the stream.
    mode, gop, gsize, gret, geof,
    \* SiteInfoListener (state_, info_, text_), the events of the document
    \* it is given and the number of events delivered to it.
    site_, sitedoc, sitepos,
    \* MakeTargetFiles: the file names of srcs, the local dups, the file
    \* names of dsts, and whether the function has returned.
    srcs, dups, dsts, made,
    \* History of the scanner: the bytes expat had processed and the
    \* stream's eofbit when Walk or Resume was called last.
    mark

getVars == <<get_, ifsbad, fault, srcreads, mode, gop, gsize, gret, geof>>

siteVars == <<site_, sitedoc, sitepos>>

fileVars == <<srcs, dups, dsts, made>>

scanVars == <<mark>>

moreVars == <<getVars, siteVars, fileVars, scanVars>>

vars == <<readerVars, poolVars, bzVars, cliVars, moreVars>>

FileLen == pad + Len(doc)

----------------------------------------------------------------------------
(* PageWriter::Write: one row per revision of the page, in list order.     *)

Row(page, rev) ==
    [title |-> page.title, ns |-> page.ns, id |-> page.id,
     redirect |-> page.redirect, restrictions |-> page.restrictions,
     rev_id |-> rev.id, rev_parent_id |-> rev.parent_id,
     rev_timestamp |-> rev.timestamp,
     rev_contrib_username |-> rev.contributor.username,
     rev_contrib_id |-> rev.contributor.id,
     rev_contrib_ip |-> rev.contributor.ip,
     rev_minor |-> rev.minor, rev_comment |-> rev.comment,
     rev_model |-> rev.model, rev_format |-> rev.format,
     rev_text |-> rev.text, rev_sha1 |-> rev.sha1]

PageWriter_Write(page) ==
    [i \in 1..Len(page.revisions) |-> Row(page, page.revisions[i])]

----------------------------------------------------------------------------
(* Parser and PageReader.                                                  *)

\* The expat parser as XML_ParserCreate leaves it.
NewXmlParser ==
    [parsing |-> "INITIALIZED", final |-> FALSE, fed |-> 0, pos |-> 0,
     err |-> FALSE, level |-> 0, closed |-> FALSE]

\* Parser::Parse, the loop condition: while (!is_.eof() && status == OK).
Parse_Continues(eof, st) == ~eof /\ st = "OK"

\* A Parse that returns true whatever the status.
Parse_Result_Always(st) == TRUE

\* Parser::Parse, the value returned: status != XML_STATUS_ERROR.
Parse_Result(st) == st # "ERROR"

\* PageReader::Next, cases Init and Next: what becomes of state_, page_
\* and the return value once Walk or Resume has returned ok.
Next_Outcome(ok, snapshot, old) ==
    IF ok
    THEN [state |-> "Next", page |-> snapshot, ret |-> TRUE]
    ELSE [state |-> "Term", page |-> old, ret |-> FALSE]

\* A Term case that would enter the scanner again.
Next_Term_Rescans == [state |-> "Term", ret |-> FALSE, scan |-> TRUE]

\* PageReader::Next, case Term: the state, the return value, and whether
\* the scanner is entered.
Next_Term == [state |-> "Term", ret |-> FALSE, scan |-> FALSE]

\* Walk or Resume returns ok to PageReader::Next, which returns to its
\* caller.
Scanner_Returns(ok) ==
    LET o == Next_Outcome(ok, listener_.page, page_)
    IN  /\ state_' = o.state
        /\ page_' = o.page
        /\ ret' = o.ret
        /\ yields' = IF o.ret THEN Append(yields, pageEnds) ELSE yields
        /\ ppc' = "idle"
        /\ tpc' = "got"
        /\ via' = via

\* A call of expat has returned st; eof is the stream's eofbit.  Inside
\* Parse the loop goes on or Parse returns; after XML_ResumeParser,
\* Parser::Resume switches on the status.
Expat_Returns(st, eof) ==
    /\ status' = st
    /\ IF via = "parse"
       THEN IF Parse_Continues(eof, st)
            THEN /\ ppc' = "read"
                 /\ UNCHANGED <<via, state_, page_, ret, yields, tpc>>
            ELSE Scanner_Returns(Parse_Result(st))
       ELSE CASE st = "ERROR" -> Scanner_Returns(FALSE)
              [] st = "SUSPENDED" -> Scanner_Returns(TRUE)
              [] st = "OK" ->
                    /\ ppc' = "read"
                    /\ via' = "parse"
                    /\ UNCHANGED <<state_, page_, ret, yields, tpc>>

\* PageReader::Next is called: by the loop of Transform, or by a client
\* that goes on calling after the loop has ended.
Next_Call ==
    /\ ppc = "idle"
    /\ \/ tpc = "loop" /\ extraCalls' = extraCalls
       \/ tpc = "done" /\ extraCalls < MaxExtraCalls
                       /\ extraCalls' = extraCalls + 1
    /\ callState' = state_
    /\ CASE state_ = "Init" ->
              \* parser_.Walk(listener_): listener_ is attached, Parse().
              /\ ppc' = "read"
              /\ via' = "parse"
              /\ scans' = scans + 1
              /\ UNCHANGED <<parser_, status, state_, page_, ret, yields, tpc>>
         [] state_ = "Next" ->
              \* parser_.Resume(): XML_ResumeParser refuses a parser that
              \* is not suspended, else lets the processor go on.
              /\ scans' = scans + 1
              /\ IF parser_.parsing # "SUSPENDED"
                 THEN /\ Expat_Returns("ERROR", is_.eof)
                      /\ UNCHANGED parser_
                 ELSE /\ parser_' = [parser_ EXCEPT !.parsing = "PARSING"]
                      /\ ppc' = "events"
                      /\ via' = "resume"
                      /\ UNCHANGED <<status, state_, page_, ret, yields, tpc>>
         [] state_ = "Term" ->
              /\ state_' = Next_Term.state
              /\ ret' = Next_Term.ret
              /\ scans' = IF Next_Term.scan THEN scans + 1 ELSE scans
              /\ tpc' = "got"
              /\ UNCHANGED <<parser_, ppc, via, status, page_, yields>>
    /\ mark' = IF state_ \in {"Init", "Next"}
               THEN [pos |-> parser_.pos, eof |-> is_.eof]
               ELSE mark
    /\ UNCHANGED <<doc, pad, buflen, is_, listener_, rows, count, pageEnds>>
    /\ UNCHANGED <<poolVars, bzVars, cliVars, getVars, siteVars, fileVars>>

\* One round of the loop of Parser::Parse up to the entry of expat:
\* is_.read(buffer_, buflen_).gcount(), then XML_Parse(buffer_, count,
\* is_.eof()).  The bytes before the first event raise no event.
Parse_Read ==
    /\ ppc = "read"
    /\ LET avail == FileLen - is_.pos
           cnt == IF is_.eof THEN 0 ELSE Min(buflen, avail)
           eof == is_.eof \/ avail < buflen
           fed == parser_.fed + cnt
       IN  /\ is_' = [pos |-> is_.pos + cnt, eof |-> eof]
           /\ IF parser_.parsing \in {"SUSPENDED", "FINISHED"} \/ parser_.err
              THEN \* XML_ERROR_SUSPENDED, XML_ERROR_FINISHED, errorProcessor
                   /\ Expat_Returns("ERROR", eof)
                   /\ UNCHANGED parser_
              ELSE IF cnt = 0 /\ ~eof
              THEN /\ parser_' = [parser_ EXCEPT !.parsing = "PARSING",
                                                 !.final = FALSE]
                   /\ Expat_Returns("OK", eof)
              ELSE /\ parser_' =
                         [parser_ EXCEPT
                             !.parsing = "PARSING",
                             !.final = eof,
                             !.fed = fed,
                             !.pos = IF @ < pad THEN Min(pad, fed) ELSE @]
                   /\ ppc' = "events"
                   /\ UNCHANGED <<via, status, state_, page_, ret, yields, tpc>>
    /\ UNCHANGED <<doc, pad, buflen, listener_, rows, count, pageEnds, scans,
                   callState, extraCalls>>
    /\ UNCHANGED <<poolVars, bzVars, cliVars, moreVars>>

\* A processor that goes on reporting events after XML_StopParser.
HasEvent_AfterStop ==
    /\ ppc = "events"
    /\ ~parser_.err
    /\ parser_.pos >= pad
    /\ parser_.pos < parser_.fed

\* Whether expat, inside its processor, has a next event to report.
HasEvent ==
    /\ ppc = "events"
    /\ parser_.parsing = "PARSING"
    /\ ~parser_.err
    /\ parser_.pos >= pad
    /\ parser_.pos < parser_.fed

NextEvent == doc[parser_.pos - pad + 1]

\* Parser::HandleElementBegin -> PageListener::HandleElementBegin.  An
\* element after the end of the root element is an error of expat.
Deliver_ElementBegin ==
    /\ HasEvent
    /\ NextEvent.t = "B"
    /\ IF parser_.closed
       THEN /\ parser_' = [parser_ EXCEPT !.err = TRUE]
            /\ UNCHANGED listener_
       ELSE /\ parser_' = [parser_ EXCEPT !.pos = @ + 1, !.level = @ + 1]
            /\ listener_' =
                   Page_HandleElementBegin(listener_, NextEvent.n, NextEvent.a)
    /\ UNCHANGED <<doc, pad, buflen, is_, ppc, via, status, state_, page_,
                   tpc, ret, rows, count, yields, pageEnds, scans, callState,
                   extraCalls>>
    /\ UNCHANGED <<poolVars, bzVars, cliVars, moreVars>>

\* Parser::HandleElementEnd -> PageListener::HandleElementEnd, which may
\* call Parser::Suspend: XML_StopParser(parser_, true) makes the parser
\* SUSPENDED, and the processor stops after this event.
Deliver_ElementEnd ==
    /\ HasEvent
    /\ NextEvent.t = "E"
    /\ IF parser_.level = 0
       THEN /\ parser_' = [parser_ EXCEPT !.err = TRUE]
            /\ UNCHANGED <<listener_, pageEnds>>
       ELSE LET res == Page_HandleElementEnd(listener_, NextEvent.n)
            IN  /\ parser_' =
                       [parser_ EXCEPT
                           !.pos = @ + 1,
                           !.level = @ - 1,
                           !.closed = (parser_.level = 1),
                           !.parsing = IF res.suspend THEN "SUSPENDED" ELSE @]
                /\ listener_' = res.l
                /\ pageEnds' = IF NextEvent.n = "page" THEN pageEnds + 1
                               ELSE pageEnds
    /\ UNCHANGED <<doc, pad, buflen, is_, ppc, via, status, state_, page_,
                   tpc, ret, rows, count, yields, scans, callState,
                   extraCalls>>
    /\ UNCHANGED <<poolVars, bzVars, cliVars, moreVars>>

\* Parser::HandleCharacterData -> PageListener::HandleCharacterData.
Deliver_CharacterData ==
    /\ HasEvent
    /\ NextEvent.t = "C"
    /\ IF parser_.level = 0
       THEN /\ parser_' = [parser_ EXCEPT !.err = TRUE]
            /\ UNCHANGED listener_
       ELSE /\ parser_' = [parser_ EXCEPT !.pos = @ + 1]
            /\ listener_' = Page_HandleCharacterData(listener_, NextEvent.s)
    /\ UNCHANGED <<doc, pad, buflen, is_, ppc, via, status, state_, page_,
                   tpc, ret, rows, count, yields, pageEnds, scans, callState,
                   extraCalls>>
    /\ UNCHANGED <<poolVars, bzVars, cliVars, moreVars>>

\* expat meets a token that is not well-formed: no handler is called.
Deliver_Malformed ==
    /\ HasEvent
    /\ NextEvent.t = "X"
    /\ parser_' = [parser_ EXCEPT !.err = TRUE]
    /\ UNCHANGED <<doc, pad, buflen, is_, ppc, via, status, listener_, state_,
                   page_, tpc, ret, rows, count, yields, pageEnds, scans,
                   callState, extraCalls>>
    /\ UNCHANGED <<poolVars, bzVars, cliVars, moreVars>>

\* The processor of expat stops: on an error, on a suspension, or at the
\* end of the bytes fed.  At the end of the final buffer the document
\* must be complete, and the parser becomes FINISHED.
Processor_Return ==
    /\ ppc = "events"
    /\ \/ parser_.err
       \/ parser_.parsing = "SUSPENDED"
       \/ parser_.pos = parser_.fed
    /\ LET complete == parser_.level = 0 /\ parser_.closed
           st == IF parser_.err THEN "ERROR"
                 ELSE IF parser_.parsing = "SUSPENDED" THEN "SUSPENDED"
                 ELSE IF parser_.final /\ ~complete THEN "ERROR"
                 ELSE "OK"
       IN  /\ parser_' =
                  IF st = "ERROR" THEN [parser_ EXCEPT !.err = TRUE]
                  ELSE IF st = "OK" /\ parser_.final
                  THEN [parser_ EXCEPT !.parsing = "FINISHED"]
                  ELSE parser_
           /\ Expat_Returns(st, is_.eof)
    /\ UNCHANGED <<doc, pad, buflen, is_, listener_, rows, count, pageEnds,
                   scans, callState, extraCalls>>
    /\ UNCHANGED <<poolVars, bzVars, cliVars, moreVars>>

\* Transform(istream, dst), the body of the loop: Next returned true, so
\* page = reader.Read(); writer->Write(page); ++count.
Transform_Write ==
    /\ tpc = "got"
    /\ ret
    /\ rows' = rows \o PageWriter_Write(page_)
    /\ count' = count + 1
    /\ tpc' = "loop"
    /\ UNCHANGED <<doc, pad, buflen, is_, parser_, ppc, via, status,
                   listener_, state_, page_, ret, yields, pageEnds, scans,
                   callState, extraCalls>>
    /\ UNCHANGED <<poolVars, bzVars, cliVars, moreVars>>

\* Transform(istream, dst): Next returned false, the loop ends.
Transform_Done ==
    /\ tpc = "got"
    /\ ~ret
    /\ tpc' = "done"
    /\ UNCHANGED <<doc, pad, buflen, is_, parser_, ppc, via, status,
                   listener_, state_, page_, ret, rows, count, yields,
                   pageEnds, scans, callState, extraCalls>>
    /\ UNCHANGED <<poolVars, bzVars, cliVars, moreVars>>

----------------------------------------------------------------------------
(* Specification of one conversion: Transform(istream, dst) over a         *)
(* PageReader, on every document, chunk size and file length.              *)

\* struct Options with its default member values.
NewOptions ==
    [usage |-> FALSE, src |-> <<>>, dst |-> <<>>, compression_codec |-> <<>>,
     compression_level |-> 0, filetype |-> "Unknown", nothreads |-> 0]

\* No command line is being handled.
CliIdle ==
    /\ args = <<>>
    /\ opts = NewOptions
    /\ rpc = "off"
    /\ exitcode = -1
    /\ printed = <<>>
    /\ srcfile = [ok |-> TRUE, head |-> <<>>]
    /\ treated = "none"

\* A bz_stream after BZ2_bzDecompressInit: the decoder expects the
\* header of a stream.  mem tells whether its allocations succeed.
NewDecoder(mem) ==
    [st |-> "magic", block |-> <<>>, pending |-> <<>>, mem |-> mem]

\* No compressed file is being read.
Bz2Idle ==
    /\ plain = <<>>
    /\ src = <<>>
    /\ oom = "none"
    /\ rsize = 1
    /\ bufsize = 1
    /\ ifs = [pos |-> 0, eof |-> FALSE]
    /\ src_buf_ = <<>>
    /\ bs_ = [next_in |-> 0, avail_in |-> 0, dec |-> NewDecoder(TRUE)]
    /\ bz_state_ = "Init"
    /\ bzin = [eof |-> FALSE, reads |-> 0]
    /\ xpc = "off"
    /\ rest = 0
    /\ out = <<>>
    /\ delivered = <<>>
    /\ seen = <<>>
    /\ err = "none"
    /\ diff = 0
    /\ result = None
    /\ req = 0
    /\ bzCallState = "Init"
    /\ refilled = [kept |-> 0, read |-> 0]

\* struct SiteInfo, value-initialised, and a SiteInfoListener after its
\* construction.
NewSiteInfo ==
    [sitename |-> <<>>, dbname |-> <<>>, base |-> <<>>, generator |-> <<>>,
     case_ |-> <<>>]

NewSiteInfoListener ==
    [state_ |-> "SiteInfoBegin", info_ |-> NewSiteInfo, text_ |-> <<>>]

\* The get area is empty and no client reads the adapter bytewise.
GetIdle ==
    /\ get_ = [buf |-> <<>>, gptr |-> 0, egptr |-> 0]
    /\ ifsbad = FALSE
    /\ fault = None
    /\ srcreads = 0
    /\ mode = "bulk"
    /\ gop = "none"
    /\ gsize = 0
    /\ gret = 0
    /\ geof = FALSE

\* No site information is being read.
SiteIdle ==
    /\ site_ = NewSiteInfoListener
    /\ sitedoc = <<>>
    /\ sitepos = 0

\* No target files are being derived.
FilesIdle ==
    /\ srcs = <<>>
    /\ dups = {}
    /\ dsts = <<>>
    /\ made = FALSE

\* Neither Walk nor Resume has been called.
ScanIdle == mark = [pos |-> 0, eof |-> FALSE]

MoreIdle == GetIdle /\ SiteIdle /\ FilesIdle /\ ScanIdle

\* The pool is not running.
PoolIdle ==
    /\ queue_ = <<>>
    /\ closed_ = FALSE
    /\ mutex_ = 0
    /\ wpc = <<>>
    /\ job = <<>>
    /\ got = <<>>
    /\ dpc = "off"
    /\ nojobs = 0
    /\ nothreads = 0
    /\ it = 0
    /\ terminated = FALSE
    /\ taken = <<>>
    /\ outcome = <<>>
    /\ fails = <<>>
    /\ sent = 0

\* No conversion is modelled in detail.
ReaderIdle ==
    /\ doc = <<>>
    /\ pad = 0
    /\ buflen = kBufLen
    /\ is_ = [pos |-> 0, eof |-> FALSE]
    /\ parser_ = NewXmlParser
    /\ ppc = "idle"
    /\ via = "parse"
    /\ status = "NONE"
    /\ listener_ = NewPageListener
    /\ state_ = "Init"
    /\ page_ = NewPage
    /\ tpc = "off"
    /\ ret = FALSE
    /\ rows = <<>>
    /\ count = 0
    /\ yields = <<>>
    /\ pageEnds = 0
    /\ scans = 0
    /\ callState = "Init"
    /\ extraCalls = 0

\* The state after PageWriter::Create and the construction of PageReader.
\* The file length is chosen by tail, the bytes of its last partial chunk.
Init ==
    /\ doc \in Documents
    /\ buflen \in BufLens
    /\ \E tail \in 0..Min(MaxTail, buflen - 1) :
           pad = (((tail - Len(doc)) % buflen) + buflen) % buflen
    /\ is_ = [pos |-> 0, eof |-> FALSE]
    /\ parser_ = NewXmlParser
    /\ ppc = "idle"
    /\ via = "parse"
    /\ status = "NONE"
    /\ listener_ = NewPageListener
    /\ state_ = "Init"
    /\ page_ = NewPage
    /\ tpc = "loop"
    /\ ret = FALSE
    /\ rows = <<>>
    /\ count = 0
    /\ yields = <<>>
    /\ pageEnds = 0
    /\ scans = 0
    /\ callState = "Init"
    /\ extraCalls = 0
    /\ PoolIdle
    /\ Bz2Idle
    /\ CliIdle
    /\ MoreIdle

Next ==
    \/ Next_Call
    \/ Parse_Read
    \/ Deliver_ElementBegin
    \/ Deliver_ElementEnd
    \/ Deliver_CharacterData
    \/ Deliver_Malformed
    \/ Processor_Return
    \/ Transform_Write
    \/ Transform_Done

Spec == Init /\ [][Next]_vars

----------------------------------------------------------------------------
(* The job queue (queue.h) and the worker pool (transform.cc).             *)

\* Jobs handed to Transform(srcs, dsts, nothreads).
MaxJobs == 3
\* Largest configured thread count (--threads).
MaxThreads == 3
\* Largest value std::thread::hardware_concurrency() reports.
MaxHw == 2
\* Items a producer enqueues in the specification of the queue alone.
MaxItems == 2
\* size_t arithmetic is done modulo 2^SizeBits.
SizeBits == 16

SizeModulus == 2 ^ SizeBits

\* a - b in size_t.
SizeSub(a, b) == (a - b + SizeModulus) % SizeModulus

\* std::vector<std::thread>::max_size(), a pointer sized element.
VectorMaxSize == SizeModulus \div 8

Threads == 0..(MaxJobs - 1)

\* How the conversion of one job, Transform(src, dst), can end: the rows
\* were written; the source cannot be opened; GuessFileType gives Unknown;
\* the scanner reports a parse error; PageWriter::Create or Write throws.
Outcomes ==
    {"ok", "open_fails", "unknown_type", "parse_error", "writer_throws"}

\* Transform(src, dst) returns a count on these and throws on the others.
Returns(kind) == kind \in {"ok", "open_fails", "unknown_type", "parse_error"}

Failed(kind) == kind \in {"open_fails", "unknown_type", "parse_error"}

\* A lock that would exclude nobody.
MutexFree_NoExclusion == TRUE

\* std::unique_lock<std::mutex> lock(mutex_) can be taken.
MutexFree == mutex_ = 0

\* A wait that would not wait.
Dequeue_Ready_Always == TRUE

\* The predicate of condvar_.wait in Dequeue.
Dequeue_Ready == closed_ \/ queue_ # <<>>

\* queue_.pop(); on an empty queue nothing is removed.
Pop(q) == IF q = <<>> THEN q ELSE Tail(q)

\* A loop that would end at the first failed conversion.
Worker_AfterJob_StopsOnFailure(kind) ==
    IF kind = "ok" THEN "dequeue"
    ELSE IF Failed(kind) THEN "exited" ELSE "terminate"

\* The loop of Transform(queue, index) after the conversion of a job
\* ended with kind: no statement catches, so a returned count leads back
\* to Dequeue and an exception leaves the thread function, which ends the
\* process (std::terminate).
Worker_AfterJob(kind) == IF Returns(kind) THEN "dequeue" ELSE "terminate"

\* Dequeue, entry: the lock is taken and the wait predicate evaluated;
\* when it is false the thread waits on the condition variable, which
\* releases the lock.  A woken thread takes the lock again the same way.
Dequeue_Lock(w) ==
    /\ ~terminated
    /\ wpc[w] \in {"dequeue", "woken"}
    /\ MutexFree
    /\ IF Dequeue_Ready
       THEN /\ mutex_' = w + 1
            /\ wpc' = [wpc EXCEPT ![w] = "locked"]
       ELSE /\ mutex_' = 0
            /\ wpc' = [wpc EXCEPT ![w] = "blocked"]
    /\ UNCHANGED <<queue_, closed_, job, got, dpc, nojobs, nothreads, it,
                   terminated, taken, outcome, fails, sent>>
    /\ UNCHANGED <<readerVars, bzVars, cliVars, moreVars>>

\* Dequeue, after the wait: T value = queue_.front() when the queue is
\* not empty; else std::nullopt is returned, the lock released, and the
\* loop of the worker ends.
Dequeue_Front(w) ==
    /\ ~terminated
    /\ wpc[w] = "locked"
    /\ IF queue_ # <<>>
       THEN /\ job' = [job EXCEPT ![w] = Some(Head(queue_))]
            /\ wpc' = [wpc EXCEPT ![w] = "pop"]
            /\ UNCHANGED <<mutex_, got>>
       ELSE /\ got' = [got EXCEPT ![w] = None]
            /\ mutex_' = 0
            /\ wpc' = [wpc EXCEPT ![w] = "exited"]
            /\ UNCHANGED job
    /\ UNCHANGED <<queue_, closed_, dpc, nojobs, nothreads, it, terminated,
                   taken, outcome, fails, sent>>
    /\ UNCHANGED <<readerVars, bzVars, cliVars, moreVars>>

\* Dequeue, the end: queue_.pop(); return value (the lock is released).
Dequeue_Pop(w) ==
    /\ ~terminated
    /\ wpc[w] = "pop"
    /\ queue_' = Pop(queue_)
    /\ mutex_' = 0
    /\ got' = [got EXCEPT ![w] = job[w]]
    /\ taken' = [taken EXCEPT ![job[w][1]] = @ + 1]
    /\ wpc' = [wpc EXCEPT ![w] = "convert"]
    /\ UNCHANGED <<closed_, job, dpc, nojobs, nothreads, it, terminated,
                   outcome, fails, sent>>
    /\ UNCHANGED <<readerVars, bzVars, cliVars, moreVars>>

\* A thread waiting on the condition variable wakes with no notification.
Dequeue_SpuriousWake(w) ==
    /\ ~terminated
    /\ wpc[w] = "blocked"
    /\ wpc' = [wpc EXCEPT ![w] = "woken"]
    /\ UNCHANGED <<queue_, closed_, mutex_, job, got, dpc, nojobs, nothreads,
                   it, terminated, taken, outcome, fails, sent>>
    /\ UNCHANGED <<readerVars, bzVars, cliVars, moreVars>>

\* The body of the loop of Transform(queue, index): the job is converted
\* by Transform(src, dst), which ends in one of the ways of Outcomes.
Worker_Convert(w) ==
    /\ ~terminated
    /\ wpc[w] = "convert"
    /\ \E kind \in Outcomes :
           /\ outcome' = [outcome EXCEPT ![got[w][1]] = kind]
           /\ fails' = [fails EXCEPT ![w] = @ \/ Failed(kind)]
           /\ IF Worker_AfterJob(kind) = "terminate"
              THEN /\ terminated' = TRUE
                   /\ UNCHANGED wpc
              ELSE /\ wpc' = [wpc EXCEPT ![w] = Worker_AfterJob(kind)]
                   /\ UNCHANGED terminated
    /\ UNCHANGED <<queue_, closed_, mutex_, job, got, dpc, nojobs, nothreads,
                   it, taken, sent>>
    /\ UNCHANGED <<readerVars, bzVars, cliVars, moreVars>>

\* Transform(srcs, dsts, nothreads) from the queue's construction to the
\* reservation of the pool: nothreads = 0 takes hardware_concurrency(),
\* which may be 0; more threads than jobs are cut down; then
\* pool.reserve(nothreads - 1), which throws std::length_error beyond
\* max_size(), and nothing catches it.
Driver_Setup ==
    /\ ~terminated
    /\ dpc = "setup"
    /\ \E hw \in 0..MaxHw :
           LET n1 == IF nothreads = 0 THEN hw ELSE nothreads
               n2 == IF n1 > nojobs THEN nojobs ELSE n1
           IN  /\ nothreads' = n2
               /\ IF SizeSub(n2, 1) > VectorMaxSize
                  THEN terminated' = TRUE /\ dpc' = dpc
                  ELSE terminated' = FALSE /\ dpc' = "spawn"
    /\ it' = 1
    /\ UNCHANGED <<queue_, closed_, mutex_, wpc, job, got, nojobs, taken,
                   outcome, fails, sent>>
    /\ UNCHANGED <<readerVars, bzVars, cliVars, moreVars>>

\* for (it = 1; it != nothreads; ++it) pool.emplace_back(...): one more
\* thread runs Transform(queue, it).
Driver_Spawn ==
    /\ ~terminated
    /\ dpc = "spawn"
    /\ it # nothreads
    /\ wpc' = [wpc EXCEPT ![it] = "dequeue"]
    /\ it' = it + 1
    /\ UNCHANGED <<queue_, closed_, mutex_, job, got, dpc, nojobs, nothreads,
                   terminated, taken, outcome, fails, sent>>
    /\ UNCHANGED <<readerVars, bzVars, cliVars, moreVars>>

\* The loop has ended: Transform(queue) runs on the driver's thread.
Driver_Inline ==
    /\ ~terminated
    /\ dpc = "spawn"
    /\ it = nothreads
    /\ dpc' = "inline"
    /\ wpc' = [wpc EXCEPT ![0] = "dequeue"]
    /\ UNCHANGED <<queue_, closed_, mutex_, job, got, nojobs, nothreads, it,
                   terminated, taken, outcome, fails, sent>>
    /\ UNCHANGED <<readerVars, bzVars, cliVars, moreVars>>

\* The in-line worker has returned and every thread of the pool has
\* ended and is joined: Transform returns.
Driver_Join ==
    /\ ~terminated
    /\ dpc = "inline"
    /\ wpc[0] = "exited"
    /\ \A w \in 1..(nothreads - 1) : wpc[w] = "exited"
    /\ dpc' = "returned"
    /\ UNCHANGED <<queue_, closed_, mutex_, wpc, job, got, nojobs, nothreads,
                   it, terminated, taken, outcome, fails, sent>>
    /\ UNCHANGED <<readerVars, bzVars, cliVars, moreVars>>

\* Transform(srcs, dsts, nothreads) right after Queue<TransformJob>
\* queue(jobs, true): the jobs 1..nojobs are queued, the queue is closed,
\* no worker runs yet.
InitPool ==
    /\ nojobs \in 1..MaxJobs
    /\ nothreads \in 0..MaxThreads
    /\ queue_ = [j \in 1..nojobs |-> j]
    /\ closed_ = TRUE
    /\ mutex_ = 0
    /\ wpc = [w \in Threads |-> "unborn"]
    /\ job = [w \in Threads |-> None]
    /\ got = [w \in Threads |-> None]
    /\ dpc = "setup"
    /\ it = 0
    /\ terminated = FALSE
    /\ taken = [j \in 1..nojobs |-> 0]
    /\ outcome = [j \in 1..nojobs |-> "pending"]
    /\ fails = [w \in Threads |-> FALSE]
    /\ sent = 0
    /\ ReaderIdle
    /\ Bz2Idle
    /\ CliIdle
    /\ MoreIdle

NextPool ==
    \/ Driver_Setup
    \/ Driver_Spawn
    \/ Driver_Inline
    \/ Driver_Join
    \/ \E w \in Threads :
           \/ Dequeue_Lock(w)
           \/ Dequeue_Front(w)
           \/ Dequeue_Pop(w)
           \/ Worker_Convert(w)

SpecPool == InitPool /\ [][NextPool]_vars

----------------------------------------------------------------------------
(* The queue on its own: a default constructed Queue (open and empty), a   *)
(* producer that calls Enqueue and Close, and consumers that run the loop  *)
(* of Transform(queue, index) on it.                                       *)

\* Consumers of the queue on its own.
MaxConsumers == 2

\* condvar_.notify_one(): one of the waiting threads, if any, is woken.
NotifyOne(pc) ==
    IF \E w \in DOMAIN pc : pc[w] = "blocked"
    THEN {[pc EXCEPT ![w] = "woken"] : w \in {v \in DOMAIN pc : pc[v] = "blocked"}}
    ELSE {pc}

\* Queue::Enqueue: lock, queue_.push(value), condvar_.notify_one().
Queue_Enqueue ==
    /\ ~terminated
    /\ dpc = "produce"
    /\ sent < MaxItems
    /\ MutexFree
    /\ queue_' = Append(queue_, sent + 1)
    /\ sent' = sent + 1
    /\ wpc' \in NotifyOne(wpc)
    /\ UNCHANGED <<closed_, mutex_, job, got, dpc, nojobs, nothreads, it,
                   terminated, taken, outcome, fails>>
    /\ UNCHANGED <<readerVars, bzVars, cliVars, moreVars>>

\* Queue::Close: closed_ = true, with no lock and no notification.
Queue_Close ==
    /\ ~terminated
    /\ dpc = "produce"
    /\ ~closed_
    /\ closed_' = TRUE
    /\ UNCHANGED <<queue_, mutex_, wpc, job, got, dpc, nojobs, nothreads, it,
                   terminated, taken, outcome, fails, sent>>
    /\ UNCHANGED <<readerVars, bzVars, cliVars, moreVars>>

InitQueue ==
    /\ nojobs = MaxItems
    /\ nothreads \in 1..MaxConsumers
    /\ queue_ = <<>>
    /\ closed_ = FALSE
    /\ mutex_ = 0
    /\ wpc = [w \in 0..(MaxConsumers - 1) |->
                 IF w < nothreads THEN "dequeue" ELSE "unborn"]
    /\ job = [w \in 0..(MaxConsumers - 1) |-> None]
    /\ got = [w \in 0..(MaxConsumers - 1) |-> None]
    /\ dpc = "produce"
    /\ it = 0
    /\ terminated = FALSE
    /\ taken = [j \in 1..MaxItems |-> 0]
    /\ outcome = [j \in 1..MaxItems |-> "pending"]
    /\ fails = [w \in 0..(MaxConsumers - 1) |-> FALSE]
    /\ sent = 0
    /\ ReaderIdle
    /\ Bz2Idle
    /\ CliIdle
    /\ MoreIdle

NextQueue ==
    \/ Queue_Enqueue
    \/ Queue_Close
    \/ \E w \in 0..(MaxConsumers - 1) :
           \/ Dequeue_Lock(w)
           \/ Dequeue_Front(w)
           \/ Dequeue_Pop(w)
           \/ Dequeue_SpuriousWake(w)
           \/ Worker_Convert(w)

SpecQueue == InitQueue /\ [][NextQueue]_vars

----------------------------------------------------------------------------
(* Documents with one odd place: a field that does not parse, an element   *)
(* that is missing or not expected, a contributor of an unusual shape.     *)

\* Pages of such a document (two revisions each).
MaxFieldPages == 2

\* Revisions of each page of such a document.
FieldRevs == 2

\* A revision as data: the texts of its fields and which optional parts
\* it has.  rich revisions carry <parentid>, <minor/>, <comment> and a
\* user contributor; the others carry an ip contributor.
BaseRev(j, rich) ==
    [id |-> <<Digit(j)>>,
     parentid |-> IF rich THEN Some(<<"7">>) ELSE None,
     ts |-> <<"ISO", Digit(j)>>,
     contrib |-> IF rich THEN "user" ELSE "ip",
     cid |-> <<"5">>,
     minor |-> rich, comment |-> rich, origin |-> FALSE, sha1 |-> TRUE,
     body |-> <<"t", Digit(j)>>]

ContributorEvents(r) ==
    LET user == Leaf("username", <<"u">>) \o Leaf("id", r.cid)
    IN  CASE r.contrib = "user" ->
                 <<EB("contributor", <<>>)>> \o user \o <<EE("contributor")>>
          [] r.contrib = "ip" ->
                 <<EB("contributor", <<>>)>> \o Leaf("ip", <<"i">>)
                     \o <<EE("contributor")>>
          [] r.contrib = "deleted" ->
                 <<EB("contributor", <<"deleted", "deleted">>),
                   EE("contributor")>>
          [] r.contrib = "deleted_user" ->
                 <<EB("contributor", <<"deleted", "deleted">>)>> \o user
                     \o <<EE("contributor")>>
          [] r.contrib = "empty" ->
                 <<EB("contributor", <<>>), EE("contributor")>>

\* The events of revision r, its children in schema order.
RevEvents(r) ==
    <<EB("revision", <<>>)>>
        \o Leaf("id", r.id)
        \o (IF r.parentid = None THEN <<>> ELSE Leaf("parentid", r.parentid[1]))
        \o Leaf("timestamp", r.ts)
        \o ContributorEvents(r)
        \o (IF r.minor THEN <<EB("minor", <<>>), EE("minor")>> ELSE <<>>)
        \o (IF r.comment THEN Leaf("comment", <<"c">>) ELSE <<>>)
        \o (IF r.origin THEN Leaf("origin", <<"9">>) ELSE <<>>)
        \o Leaf("model", <<"m">>)
        \o Leaf("format", <<"f">>)
        \o <<EB("text", <<"bytes", "2">>), EC(r.body), EE("text")>>
        \o (IF r.sha1 THEN Leaf("sha1", <<"s">>) ELSE <<>>)
        \o <<EE("revision")>>

\* The events of page g: [ns, id, revs].
PageEvents(g) ==
    <<EB("page", <<>>)>>
        \o Leaf("title", <<"P">>)
        \o Leaf("ns", g.ns)
        \o Leaf("id", g.id)
        \o Flatten([j \in 1..Len(g.revs) |-> RevEvents(g.revs[j])])
        \o <<EE("page")>>

\* The events of the dump with pages gs.
DumpEvents(gs) ==
    <<EB("mediawiki", <<>>)>> \o SiteInfoXml
        \o Flatten([k \in 1..Len(gs) |-> PageEvents(gs[k])])
        \o <<EE("mediawiki")>>

\* The odd places: fields whose text does not parse; an element left out
\* or not expected; contributors of unusual shapes; a malformed token.
FieldFlaws ==
    {"bad_ns", "bad_page_id", "bad_rev_id", "bad_parentid", "bad_timestamp",
     "bad_contrib_id"}

ShapeFlaws == {"no_sha1", "origin"}

ContributorFlaws == {"deleted", "deleted_user", "empty"}

Flaws == {"none"} \cup FieldFlaws \cup ShapeFlaws \cup ContributorFlaws

\* Revision r with the flaw applied (a flaw of a field the revision does
\* not have leaves it as it is).
FlawedRev(r, flaw) ==
    CASE flaw = "bad_rev_id" -> [r EXCEPT !.id = <<"x">>]
      [] flaw = "bad_parentid" ->
             IF r.parentid = None THEN r
             ELSE [r EXCEPT !.parentid = Some(<<"x">>)]
      [] flaw = "bad_timestamp" -> [r EXCEPT !.ts = <<"x">>]
      [] flaw = "bad_contrib_id" -> [r EXCEPT !.cid = <<"x">>]
      [] flaw = "no_sha1" -> [r EXCEPT !.sha1 = FALSE]
      [] flaw = "origin" -> [r EXCEPT !.origin = TRUE]
      [] flaw \in ContributorFlaws -> [r EXCEPT !.contrib = flaw]
      [] OTHER -> r

\* The pages of the document of prm = [flaw, page, rev, flip]: revision
\* j of page k is rich when k + j is even (odd when flip), and the flaw
\* sits in revision prm.rev of page prm.page (in the page itself for a
\* flaw of <ns> or of the page's <id>).
FieldPages(prm) ==
    [k \in 1..MaxFieldPages |->
        [ns |-> IF prm.flaw = "bad_ns" /\ k = prm.page THEN <<"x">>
                ELSE <<"0">>,
         id |-> IF prm.flaw = "bad_page_id" /\ k = prm.page THEN <<"x">>
                ELSE <<Digit(k)>>,
         revs |-> [j \in 1..FieldRevs |->
                      LET r == BaseRev(j, ((k + j) % 2 = 0) # prm.flip)
                      IN  IF k = prm.page /\ j = prm.rev
                          THEN FlawedRev(r, prm.flaw) ELSE r]]]

FieldDoc(prm) == DumpEvents(FieldPages(prm))

FieldParams ==
    [flaw : Flaws, page : 1..MaxFieldPages, rev : 1..FieldRevs,
     flip : BOOLEAN]

\* The same document without its flaw.
Clean(prm) == [prm EXCEPT !.flaw = "none"]

\* The documents, with one whose second page starts with a malformed
\* token.
FieldDocuments ==
    {FieldDoc(prm) : prm \in FieldParams}
        \cup {DocXml(<<1, 1>>, "full", "junk", 1)}

\* Transform(istream, dst) on such a document, with the default chunk
\* size and a file whose last chunk holds the last two tokens.
InitFields ==
    /\ doc \in FieldDocuments
    /\ buflen = kBufLen
    /\ pad = (((2 - Len(doc)) % buflen) + buflen) % buflen
    /\ is_ = [pos |-> 0, eof |-> FALSE]
    /\ parser_ = NewXmlParser
    /\ ppc = "idle"
    /\ via = "parse"
    /\ status = "NONE"
    /\ listener_ = NewPageListener
    /\ state_ = "Init"
    /\ page_ = NewPage
    /\ tpc = "loop"
    /\ ret = FALSE
    /\ rows = <<>>
    /\ count = 0
    /\ yields = <<>>
    /\ pageEnds = 0
    /\ scans = 0
    /\ callState = "Init"
    /\ extraCalls = 0
    /\ PoolIdle
    /\ Bz2Idle
    /\ CliIdle
    /\ MoreIdle

SpecFields == InitFields /\ [][Next]_vars

-----------------------------------------------------------------------------
(* The decompression adapter ibz2streambuf (bz2.h, bz2.cc) between the     *)
(* compressed file and the scanner: Transform(src, dst) wraps the file in  *)
(* the adapter and the Parser reads it with is_.read(buffer, buflen),      *)
(* that is with xsgetn.  Nothing in this path calls underflow, so the get  *)
(* area stays as the constructor set it, empty.                            *)
(*                                                                         *)
(* libbz2 is not part of the sources; the decoder is modelled by the       *)
(* contract of BZ2_bzDecompress on a format with the same structure: a     *)
(* two-symbol header, blocks that produce output only when they have been  *)
(* read whole, and an end-of-stream marker.                                *)

\* Bytes of uncompressed input, bytes per block, capacity of the source
\* buffer (kBufSize of bz2.h:20, scaled), size of the scanner's reads
\* (kBufLen, scaled).
MaxPlain == 4
MaxBlock == 2
MaxSrcBuf == 4
MaxRead == 3

\* The symbols of a compressed file other than the data of a block: the
\* two parts of the header, the end of a block, the end of the stream, a
\* damaged symbol, and what src_buf_ holds before anything is read.
Symbol ==
    [k \in {"magic", "level", "crc", "end", "bad", "zero"} |->
        [k |-> k, v |-> 0]]

\* The uncompressed input: n distinct bytes.
Plain(n) == [i \in 1..n |-> i]

RECURSIVE Blocks(_, _)
Blocks(p, b) ==
    IF p = <<>>
    THEN <<>>
    ELSE LET k == Min(b, Len(p))
         IN  [i \in 1..k |-> [k |-> "data", v |-> p[i]]]
                 \o <<Symbol["crc"]>>
                 \o Blocks(SubSeq(p, k + 1, Len(p)), b)

\* What compressing p with blocks of b bytes writes: one stream.
Bzip2(p, b) ==
    <<Symbol["magic"], Symbol["level"]>> \o Blocks(p, b) \o <<Symbol["end"]>>

\* The compressed files: whole streams, streams cut short, streams with
\* one damaged symbol, and a stream followed by more symbols.  The first
\* symbol is always the magic: GuessFileType sends no other file here.
Bz2Files ==
    LET Wholes == {[plain |-> Plain(n), src |-> Bzip2(Plain(n), b),
                    kind |-> "whole"] :
                       n \in 0..MaxPlain, b \in 1..MaxBlock}
        Cut(w) == {[plain |-> w.plain, src |-> SubSeq(w.src, 1, k),
                    kind |-> "truncated"] : k \in 1..(Len(w.src) - 1)}
        Damaged(w) == {[plain |-> w.plain,
                        src |-> [w.src EXCEPT ![q] = Symbol["bad"]],
                        kind |-> "damaged"] : q \in 2..Len(w.src)}
        Followed(w) == [plain |-> w.plain,
                        src |-> w.src \o Bzip2(<<MaxPlain + 1>>, 1),
                        kind |-> "followed"]
    IN  Wholes \cup UNION {Cut(w) : w \in Wholes}
               \cup UNION {Damaged(w) : w \in Wholes}
               \cup {Followed(w) : w \in Wholes}

\* BZ2_bzDecompress(&bs_): the decoder d reads the symbols of in after
\* the first used ones and appends to o at most cap bytes in all.  It
\* returns BZ_OK when the output is full or the input is used up.
RECURSIVE BZ2_bzDecompress(_, _, _, _, _)
BZ2_bzDecompress(d, in, cap, o, used) ==
    LET Return(code, dd, oo, uu) ==
            [err |-> code, dec |-> dd, out |-> oo, used |-> uu]
    IN  IF d.st = "ended"
        THEN Return("BZ_PARAM_ERROR", d, o, used)
        ELSE IF d.st = "output"
        THEN LET k == Min(Len(d.pending), cap - Len(o))
                 o1 == o \o SubSeq(d.pending, 1, k)
                 left == SubSeq(d.pending, k + 1, Len(d.pending))
             IN  IF left # <<>>
                 THEN Return("BZ_OK", [d EXCEPT !.pending = left], o1, used)
                 ELSE BZ2_bzDecompress(
                          [d EXCEPT !.st = "block", !.pending = <<>>],
                          in, cap, o1, used)
        ELSE IF used = Len(in)
        THEN Return("BZ_OK", d, o, used)
        ELSE LET sym == in[used + 1]
                 u1 == used + 1
             IN  CASE d.st = "magic" ->
                        IF sym = Symbol["magic"]
                        THEN BZ2_bzDecompress([d EXCEPT !.st = "level"],
                                              in, cap, o, u1)
                        ELSE Return("BZ_DATA_ERROR_MAGIC", d, o, u1)
                   [] d.st = "level" ->
                        IF sym = Symbol["level"]
                        THEN BZ2_bzDecompress([d EXCEPT !.st = "block"],
                                              in, cap, o, u1)
                        ELSE Return("BZ_DATA_ERROR_MAGIC", d, o, u1)
                   [] d.st = "block" ->
                        IF sym.k = "data"
                        THEN IF d.mem
                             THEN BZ2_bzDecompress(
                                      [d EXCEPT !.block = @ \o <<sym.v>>],
                                      in, cap, o, u1)
                             ELSE Return("BZ_MEM_ERROR", d, o, u1)
                        ELSE IF sym = Symbol["crc"] /\ d.block # <<>>
                        THEN BZ2_bzDecompress(
                                 [d EXCEPT !.st = "output",
                                           !.pending = d.block,
                                           !.block = <<>>],
                                 in, cap, o, u1)
                        ELSE IF sym = Symbol["end"] /\ d.block = <<>>
                        THEN Return("BZ_STREAM_END", d, o, u1)
                        ELSE Return("BZ_DATA_ERROR", d, o, u1)

\* BZ2_bzDecompressEnd(&bs_).
BZ2_bzDecompressEnd(d) == [d EXCEPT !.st = "ended"]

\* inflate_chunk, the top-up of src_buf_: the n symbols not yet consumed
\* are moved to the start of the buffer and the symbols read from the
\* file are put after them.
Refill_InPlace(buf, next_in, n, new) ==
    [i \in 1..Len(buf) |->
        IF i > n /\ i <= n + Len(new) THEN new[i - n] ELSE buf[i]]

Refill(buf, next_in, n, new) ==
    [i \in 1..Len(buf) |->
        IF i <= n THEN buf[next_in + i]
        ELSE IF i <= n + Len(new) THEN new[i - n]
        ELSE buf[i]]

\* inflate_chunk, what follows BZ_OK: "return" the bytes, "loop" for more
\* input, or "finish" as at the end of the stream.
Inflate_Ok_ReturnsZero(d, eof) ==
    IF ~eof THEN "return" ELSE "finish"

Inflate_Ok(d, eof) ==
    IF d > 0 THEN "return"
    ELSE IF ~eof THEN "loop"
    ELSE "finish"

\* inflate_chunk, the state after the decoder has reported an error.
Inflate_Error_StaysMain == "Main"

Inflate_Error == "Term"

\* xsgetn, the condition of its do-while loop.
Xsgetn_Again_Never(r) == FALSE

Xsgetn_Again(r) == r > 0

DecoderErrors ==
    {"BZ_PARAM_ERROR", "BZ_DATA_ERROR", "BZ_DATA_ERROR_MAGIC",
     "BZ_MEM_ERROR"}

\* Parser::Parse: is_.read(buffer_.get(), buflen_) on the stream over the
\* adapter, which calls xsgetn(ptr, size) unless the stream is at its end.
\* The get area is empty, so nothing is copied from it.
Xsgetn_Call ==
    /\ xpc = "idle"
    /\ ~bzin.eof
    /\ rest' = rsize
    /\ out' = <<>>
    /\ bzCallState' = bz_state_
    /\ bzin' = [bzin EXCEPT !.reads = @ + 1]
    /\ xpc' = "chunk"
    /\ UNCHANGED <<plain, src, oom, rsize, bufsize, ifs, src_buf_, bs_,
                   bz_state_, delivered, seen, err, diff, result, req,
                   refilled>>
    /\ UNCHANGED <<readerVars, poolVars, cliVars, moreVars>>

\* read_chunk(ptr, rest) up to the call of inflate_chunk.
Read_Chunk ==
    /\ xpc = "chunk"
    /\ CASE bz_state_ = "Init" ->
              IF oom = "init"
              THEN /\ bs_' = [bs_ EXCEPT !.dec = BZ2_bzDecompressEnd(@)]
                   /\ bz_state_' = "Term"
                   /\ err' = "BZ_MEM_ERROR"
                   /\ result' = None
                   /\ req' = rest
                   /\ xpc' = "return"
              ELSE /\ bs_' = [bs_ EXCEPT !.dec = NewDecoder(oom = "none")]
                   /\ bz_state_' = "Main"
                   /\ xpc' = "inflate"
                   /\ UNCHANGED <<err, result, req>>
         [] bz_state_ = "Main" ->
              /\ xpc' = "inflate"
              /\ UNCHANGED <<bs_, bz_state_, err, result, req>>
         [] bz_state_ = "Term" ->
              /\ result' = None
              /\ req' = rest
              /\ xpc' = "return"
              /\ UNCHANGED <<bs_, bz_state_, err>>
    /\ UNCHANGED <<plain, src, oom, rsize, bufsize, ifs, src_buf_, bzin,
                   rest, out, delivered, seen, diff, bzCallState, refilled>>
    /\ UNCHANGED <<readerVars, poolVars, cliVars, moreVars>>

\* inflate_chunk(ptr, rest), one round of its loop: the top-up, the call
\* of the decoder and the switch on its code.  A value returned goes to
\* the loop of xsgetn.
Inflate_Chunk ==
    /\ xpc = "inflate"
    /\ LET topup == bs_.avail_in < bufsize /\ ~ifs.eof
           want == bufsize - bs_.avail_in
           n == Min(want, Len(src) - ifs.pos)
           new == SubSeq(src, ifs.pos + 1, ifs.pos + n)
           buf == IF topup
                  THEN Refill(src_buf_, bs_.next_in, bs_.avail_in, new)
                  ELSE src_buf_
           is1 == IF topup
                  THEN [pos |-> ifs.pos + n, eof |-> n < want]
                  ELSE ifs
           next_in == IF topup THEN 0 ELSE bs_.next_in
           avail_in == IF topup THEN bs_.avail_in + n ELSE bs_.avail_in
           in == SubSeq(buf, next_in + 1, next_in + avail_in)
           r == BZ2_bzDecompress(bs_.dec, in, rest, <<>>, 0)
           d == Len(r.out)
           after == [next_in |-> next_in + r.used,
                     avail_in |-> avail_in - r.used,
                     dec |-> r.dec]
           ended == [after EXCEPT !.dec = BZ2_bzDecompressEnd(@)]
           todo == CASE r.err = "BZ_OK" -> Inflate_Ok(d, is1.eof)
                     [] r.err = "BZ_STREAM_END" -> "finish"
                     [] OTHER -> "fail"
           value == IF todo = "return" \/ (todo = "finish" /\ d > 0)
                    THEN Some(d)
                    ELSE None
       IN  /\ src_buf_' = buf
           /\ ifs' = is1
           /\ refilled' = IF topup
                          THEN [kept |-> bs_.avail_in, read |-> n]
                          ELSE refilled
           /\ seen' = seen \o SubSeq(in, 1, r.used)
           /\ err' = r.err
           /\ diff' = d
           /\ bs_' = IF todo \in {"finish", "fail"} THEN ended ELSE after
           /\ bz_state_' = CASE todo = "finish" -> "Term"
                             [] todo = "fail" -> Inflate_Error
                             [] OTHER -> bz_state_
           /\ IF todo = "loop"
              THEN /\ xpc' = "inflate"
                   /\ UNCHANGED <<result, req, rest, out>>
              ELSE /\ result' = value
                   /\ req' = rest
                   /\ IF value = None
                      THEN /\ xpc' = "return"
                           /\ UNCHANGED <<rest, out>>
                      ELSE /\ out' = out \o r.out
                           /\ rest' = rest - d
                           /\ xpc' = IF Xsgetn_Again(rest - d)
                                     THEN "chunk"
                                     ELSE "return"
    /\ UNCHANGED <<plain, src, oom, rsize, bufsize, bzin, delivered,
                   bzCallState>>
    /\ UNCHANGED <<readerVars, poolVars, cliVars, moreVars>>

\* xsgetn returns size - rest to istream::read, which sets eofbit (and
\* failbit) when it got less than it asked for.
Xsgetn_Return ==
    /\ xpc = "return"
    /\ delivered' = delivered \o out
    /\ bzin' = [bzin EXCEPT !.eof = (rsize - rest) # rsize]
    /\ xpc' = "idle"
    /\ UNCHANGED <<plain, src, oom, rsize, bufsize, ifs, src_buf_, bs_,
                   bz_state_, rest, out, seen, err, diff, result, req,
                   bzCallState, refilled>>
    /\ UNCHANGED <<readerVars, poolVars, cliVars, moreVars>>

\* Transform(src, dst) has found the magic and has constructed the adapter
\* over the file, at position 0 again, and the stream over the adapter.
InitBz2 ==
    /\ \E f \in Bz2Files :
           /\ plain = f.plain
           /\ src = f.src
           /\ oom \in (IF f.kind = "whole"
                       THEN {"none", "init", "run"}
                       ELSE {"none"})
    /\ rsize \in 1..MaxRead
    /\ bufsize \in 2..MaxSrcBuf
    /\ ifs = [pos |-> 0, eof |-> FALSE]
    /\ src_buf_ = [i \in 1..bufsize |-> Symbol["zero"]]
    /\ bs_ = [next_in |-> 0, avail_in |-> 0, dec |-> NewDecoder(TRUE)]
    /\ bz_state_ = "Init"
    /\ bzin = [eof |-> FALSE, reads |-> 0]
    /\ xpc = "idle"
    /\ rest = 0
    /\ out = <<>>
    /\ delivered = <<>>
    /\ seen = <<>>
    /\ err = "none"
    /\ diff = 0
    /\ result = None
    /\ req = 0
    /\ bzCallState = "Init"
    /\ refilled = [kept |-> 0, read |-> 0]
    /\ ReaderIdle
    /\ PoolIdle
    /\ CliIdle
    /\ MoreIdle

NextBz2 ==
    \/ Xsgetn_Call
    \/ Read_Chunk
    \/ Inflate_Chunk
    \/ Xsgetn_Return

SpecBz2 == InitBz2 /\ [][NextBz2]_vars

-----------------------------------------------------------------------------
(* The command line (main.cc) and the file-type sniffer (transform.cc).    *)
(* Run is followed for one source file; the pool that                      *)
(* Transform(srcs, dsts, nothreads) starts is the subject of SpecPool, and *)
(* here its single job is done by Transform(src, dst) at once.             *)

\* Arguments after "mw convert"; bytes at the start of a source file.
MaxArgs == 4
MaxHead == 4

\* The words of the command line, as strings of characters.
Word ==
    [mw |-> <<"m", "w">>,
     convert |-> <<"c", "o", "n", "v", "e", "r", "t">>,
     help |-> <<"-", "-", "h", "e", "l", "p">>,
     codec |-> <<"-", "-", "c", "o", "m", "p", "r", "e", "s", "s", "i", "o",
                 "n", "-", "c", "o", "d", "e", "c">>,
     level |-> <<"-", "-", "c", "o", "m", "p", "r", "e", "s", "s", "i", "o",
                 "n", "-", "l", "e", "v", "e", "l">>,
     filetype |-> <<"-", "-", "f", "i", "l", "e", "t", "y", "p", "e">>,
     threads |-> <<"-", "-", "t", "h", "r", "e", "a", "d", "s">>,
     bzip2 |-> <<"b", "z", "i", "p", "2">>,
     xml |-> <<"x", "m", "l">>,
     magic |-> <<"B", "Z", "h">>]

\* The argument vectors: too short ones, one with another command, and
\* "mw convert" followed by up to MaxArgs of the words below.
ArgVectors ==
    LET Tokens == {Word.help, Word.filetype, Word.threads, Word.bzip2,
                   Word.xml, <<"2">>, <<"s">>, <<"d">>}
    IN  {<<>>, <<Word.mw>>, <<Word.mw, <<"s">>, Word.help>>}
            \cup {<<Word.mw, Word.convert>> \o r :
                      r \in SeqUpTo(Tokens, MaxArgs)}

\* The source files: one that cannot be opened, and files that start with
\* up to MaxHead of the bytes below.
SourceFiles ==
    {[ok |-> FALSE, head |-> <<>>]}
        \cup {[ok |-> TRUE, head |-> h] :
                  h \in SeqUpTo({"B", "Z", "h", "\n", "<"}, MaxHead)}

ParseFileType(view) ==
    IF view = Word.bzip2 THEN Some("BZip2")
    ELSE IF view = Word.xml THEN Some("XML")
    ELSE None

\* ParseOptions, the loop over args from position i on and the check of
\* the positional arguments after it.  what is the message of the
\* exception thrown, or empty.
RECURSIVE ParseOptions_Loop(_, _, _, _)
ParseOptions_Loop(a, i, o, positional) ==
    LET Throw(what) == [what |-> what, opts |-> NewOptions]
        After(oo) ==
            IF Len(positional) # 2
            THEN Throw("too few positional arguments")
            ELSE [what |-> "",
                  opts |-> [oo EXCEPT !.src = positional[1],
                                      !.dst = positional[2]]]
        WithValue(Parse(_), Store(_)) ==
            IF i + 1 > Len(a)
            THEN Throw("too few options")
            ELSE IF Parse(a[i + 1]) = None
            THEN Throw("failed to parse option value")
            ELSE ParseOptions_Loop(a, i + 2, Store(Parse(a[i + 1])[1]),
                                   positional)
    IN  IF i > Len(a) THEN After(o)
        ELSE IF a[i] = Word.help THEN After([o EXCEPT !.usage = TRUE])
        ELSE IF a[i] = Word.codec
        THEN WithValue(LAMBDA v : Some(v),
                       LAMBDA v : [o EXCEPT !.compression_codec = v])
        ELSE IF a[i] = Word.level
        THEN WithValue(ParseUInt64,
                       LAMBDA v : [o EXCEPT !.compression_level = v])
        ELSE IF a[i] = Word.filetype
        THEN WithValue(ParseFileType,
                       LAMBDA v : [o EXCEPT !.filetype = v])
        ELSE IF a[i] = Word.threads
        THEN WithValue(ParseUInt64, LAMBDA v : [o EXCEPT !.nothreads = v])
        ELSE ParseOptions_Loop(a, i + 1, o, Append(positional, a[i]))

ParseOptions(a) ==
    IF Len(a) < 2
    THEN [what |-> "missing CLI command", opts |-> NewOptions]
    ELSE IF a[2] # Word.convert
    THEN [what |-> "unknown CLI command", opts |-> NewOptions]
    ELSE ParseOptions_Loop(a, 3, NewOptions, <<>>)

\* is.get(buf.data(), buf.size()): the characters extracted, at most
\* size - 1, up to the end of the file or the next line feed, which stays
\* in the stream.  Extracting nothing sets failbit.
Istream_Get(head, size) ==
    LET most == Min(size - 1, Len(head))
        k == CHOOSE k \in 0..most :
                 /\ \A i \in 1..k : head[i] # "\n"
                 /\ k = most \/ head[k + 1] = "\n"
    IN  SubSeq(head, 1, k)

\* GuessFileType(std::istream &).
GuessFileType(head) ==
    LET buf == Istream_Get(head, 4)
    IN  IF buf = <<>> THEN "Unknown"
        ELSE IF buf = Word.magic THEN "BZip2"
        ELSE "XML"

\* Run: ParseOptions and the handler of OptParsingError.
Run_ParseOptions ==
    /\ rpc = "start"
    /\ LET r == ParseOptions(args)
       IN  IF r.what # ""
           THEN /\ printed' = printed \o <<"ERR", "usage">>
                /\ exitcode' = 1
                /\ rpc' = "exited"
                /\ UNCHANGED opts
           ELSE /\ opts' = r.opts
                /\ rpc' = "parsed"
                /\ UNCHANGED <<printed, exitcode>>
    /\ UNCHANGED <<args, srcfile, treated>>
    /\ UNCHANGED <<readerVars, poolVars, bzVars, moreVars>>

\* Run: if (opts.usage).
Run_Usage ==
    /\ rpc = "parsed"
    /\ opts.usage
    /\ printed' = Append(printed, "usage")
    /\ exitcode' = 0
    /\ rpc' = "exited"
    /\ UNCHANGED <<args, opts, srcfile, treated>>
    /\ UNCHANGED <<readerVars, poolVars, bzVars, moreVars>>

\* Run: the source and target paths are prepared; a path that does not
\* exist, an empty list of sources or a directory that cannot be created
\* ends the program with 1.
Run_Prepare ==
    /\ rpc = "parsed"
    /\ ~opts.usage
    /\ \E ok \in BOOLEAN :
           IF ok
           THEN /\ printed' = Append(printed, "INF")
                /\ rpc' = "transform"
                /\ UNCHANGED exitcode
           ELSE /\ printed' = Append(printed, "ERR")
                /\ exitcode' = 1
                /\ rpc' = "exited"
    /\ UNCHANGED <<args, opts, srcfile, treated>>
    /\ UNCHANGED <<readerVars, poolVars, bzVars, moreVars>>

\* Run: mw::Transform(srcs, dsts, opts.nothreads) and return 0.  The job
\* is done by Transform(src, dst), which opens the file and asks
\* GuessFileType for its type.
Run_Transform ==
    /\ rpc = "transform"
    /\ treated' = IF srcfile.ok THEN GuessFileType(srcfile.head) ELSE "none"
    /\ exitcode' = 0
    /\ rpc' = "exited"
    /\ UNCHANGED <<args, opts, printed, srcfile>>
    /\ UNCHANGED <<readerVars, poolVars, bzVars, moreVars>>

\* main has called Run with the argument vector; the source is a bzip2
\* file or an XML file.
InitRun ==
    /\ args \in ArgVectors
    /\ opts = NewOptions
    /\ rpc = "start"
    /\ exitcode = -1
    /\ printed = <<>>
    /\ srcfile \in {[ok |-> TRUE, head |-> Word.magic \o <<"<">>],
                    [ok |-> TRUE, head |-> <<"<", "<">>]}
    /\ treated = "none"
    /\ ReaderIdle
    /\ PoolIdle
    /\ Bz2Idle
    /\ MoreIdle

NextRun ==
    \/ Run_ParseOptions
    \/ Run_Usage
    \/ Run_Prepare
    \/ Run_Transform

SpecRun == InitRun /\ [][NextRun]_vars

\* "mw convert s d" is about to convert a source file of any content.
InitSniff ==
    /\ args = <<Word.mw, Word.convert, <<"s">>, <<"d">>>>
    /\ opts = ParseOptions(args).opts
    /\ rpc = "transform"
    /\ exitcode = -1
    /\ printed = <<"INF">>
    /\ srcfile \in SourceFiles
    /\ treated = "none"
    /\ ReaderIdle
    /\ PoolIdle
    /\ Bz2Idle
    /\ MoreIdle

SpecSniff == InitSniff /\ [][Run_Transform]_vars

----------------------------------------------------------------------------
(* Documents that vary the layout of one page: which optional children a   *)
(* revision has, which leaves and attributes its contributor has, which    *)
(* elements follow the header of the page, and elements nested where the   *)
(* schema has none.                                                        *)

\* Elements after the header of such a page.
MaxLayoutItems == 3

\* The attribute lists of a <contributor> tag, name/value pairs as expat
\* passes them.
ContributorAttrs ==
    {<<>>, <<"deleted", "deleted">>, <<"deleted", "x">>,
     <<"foo", "deleted">>, <<"foo", "x">>}

ContributorLeaves == {"username", "id", "ip"}

\* A revision as data: which of <parentid>, <minor/>, <comment> it has,
\* the leaves and attributes of its contributor, the text of its
\* timestamp, and the element it repeats inside itself right after the
\* opening tag of that element's name ("none" for a revision of the schema).
LayoutRev(parentid, minor, comment, leaves, attrs) ==
    [parentid |-> parentid, minor |-> minor, comment |-> comment,
     leaves |-> leaves, attrs |-> attrs, ts |-> <<"ISO", "1">>,
     nest |-> "none"]

PlainRev == LayoutRev(FALSE, FALSE, FALSE, {"ip"}, <<>>)

LayoutContributorEvents(r) ==
    <<EB("contributor", r.attrs)>>
        \o (IF r.nest = "contributor"
            THEN <<EB("contributor", <<>>), EE("contributor")>> ELSE <<>>)
        \o (IF "username" \in r.leaves THEN Leaf("username", <<"u">>)
            ELSE <<>>)
        \o (IF "id" \in r.leaves THEN Leaf("id", <<"5">>) ELSE <<>>)
        \o (IF "ip" \in r.leaves THEN Leaf("ip", <<"i">>) ELSE <<>>)
        \o <<EE("contributor")>>

LayoutRevEvents(r) ==
    <<EB("revision", <<>>)>>
        \o Leaf("id", <<"4">>)
        \o (IF r.nest = "revision"
            THEN <<EB("revision", <<>>), EE("revision")>> ELSE <<>>)
        \o (IF r.parentid THEN Leaf("parentid", <<"7">>) ELSE <<>>)
        \o Leaf("timestamp", r.ts)
        \o LayoutContributorEvents(r)
        \o (IF r.minor THEN <<EB("minor", <<>>), EE("minor")>> ELSE <<>>)
        \o (IF r.comment THEN Leaf("comment", <<"c">>) ELSE <<>>)
        \o Leaf("model", <<"m">>)
        \o Leaf("format", <<"f">>)
        \o <<EB("text", <<"bytes", "2">>), EC(<<"t">>), EE("text")>>
        \o Leaf("sha1", <<"s">>)
        \o <<EE("revision")>>

\* An element after the header of a page: a revision, an upload or a
\* discussionthreadinginfo with children of the schema, or an element the
\* schema does not have ("stray") that holds an element named page.
Item(k, r) == [k |-> k, r |-> r]

ItemEvents(x) ==
    CASE x.k = "revision" -> LayoutRevEvents(x.r)
      [] x.k = "upload" ->
             <<EB("upload", <<>>)>> \o Leaf("timestamp", <<"ISO", "2">>)
                 \o <<EB("contributor", <<>>)>> \o Leaf("username", <<"v">>)
                 \o <<EE("contributor")>> \o Leaf("filename", <<"n">>)
                 \o <<EE("upload")>>
      [] x.k = "discussionthreadinginfo" ->
             <<EB("discussionthreadinginfo", <<>>)>>
                 \o Leaf("ThreadID", <<"3">>)
                 \o <<EE("discussionthreadinginfo")>>
      [] x.k = "stray" ->
             <<EB("x", <<>>), EB("page", <<>>), EE("page"), EE("x")>>

\* The events of the page with these elements after its header.
LayoutPageEvents(id, items) ==
    <<EB("page", <<>>)>>
        \o Leaf("title", <<"P">>) \o Leaf("ns", <<"0">>) \o Leaf("id", id)
        \o Flatten([i \in 1..Len(items) |-> ItemEvents(items[i])])
        \o <<EE("page")>>

\* The document of prm = [items, tail, junk]: one page with the items,
\* then a malformed token (junk), then a second page of one plain
\* revision (tail).
LayoutDoc(prm) ==
    <<EB("mediawiki", <<>>)>> \o SiteInfoXml
        \o LayoutPageEvents(<<"1">>, prm.items)
        \o (IF prm.junk THEN <<EX>> ELSE <<>>)
        \o (IF prm.tail
            THEN LayoutPageEvents(<<"2">>, <<Item("revision", PlainRev)>>)
            ELSE <<>>)
        \o <<EE("mediawiki")>>

\* Events of LayoutDoc(prm) up to the end of item k of its first page.
RECURSIVE LayoutOffset(_, _)
LayoutOffset(prm, k) ==
    IF k = 0
    THEN 1 + Len(SiteInfoXml) + 1 + 9
    ELSE LayoutOffset(prm, k - 1) + Len(ItemEvents(prm.items[k]))

OnePage(items) == [items |-> items, tail |-> FALSE, junk |-> FALSE]

\* Two revisions, each with any of the eight combinations of <parentid>,
\* <minor/> and <comment>.
OptionalParams ==
    {OnePage(<<Item("revision", LayoutRev(a[1], a[2], a[3], {"ip"}, <<>>)),
               Item("revision", LayoutRev(b[1], b[2], b[3], {"ip"}, <<>>))>>) :
        a \in BOOLEAN \X BOOLEAN \X BOOLEAN,
        b \in BOOLEAN \X BOOLEAN \X BOOLEAN}

\* One revision whose contributor has any leaves and any attributes.
ContributorParams ==
    {OnePage(<<Item("revision", LayoutRev(TRUE, FALSE, TRUE, ls, as))>>) :
        ls \in SUBSET ContributorLeaves, as \in ContributorAttrs}

\* Plain revisions, uploads and discussionthreadinginfos in any order.
ItemParams ==
    {OnePage(items) :
        items \in SeqUpTo({Item(k, PlainRev) :
                              k \in {"revision", "upload",
                                     "discussionthreadinginfo"}},
                          MaxLayoutItems)}

\* A stray element before or after a revision, and another page after.
StrayParams ==
    {[items |-> items, tail |-> TRUE, junk |-> FALSE] :
        items \in {<<Item("stray", PlainRev)>>,
                   <<Item("stray", PlainRev), Item("revision", PlainRev)>>,
                   <<Item("revision", PlainRev), Item("stray", PlainRev)>>}}

\* A revision or a contributor repeated inside itself, and a revision
\* whose timestamp does not parse.
NestParams ==
    {OnePage(<<Item("revision", [PlainRev EXCEPT !.nest = "revision"])>>),
     OnePage(<<Item("revision", [PlainRev EXCEPT !.nest = "contributor"])>>),
     OnePage(<<Item("revision", [PlainRev EXCEPT !.ts = <<"x">>]),
               Item("revision", PlainRev)>>)}

JunkParams ==
    {[items |-> <<Item("revision", PlainRev)>>, tail |-> TRUE, junk |-> TRUE]}

LayoutParams ==
    OptionalParams \cup ContributorParams \cup ItemParams \cup StrayParams
        \cup NestParams \cup JunkParams

LayoutDocuments == {LayoutDoc(prm) : prm \in LayoutParams}

\* Transform(istream, dst) on such a document, with the default chunk
\* size and a file whose last chunk holds the last two tokens.
InitLayouts ==
    /\ doc \in LayoutDocuments
    /\ buflen = kBufLen
    /\ pad = (((2 - Len(doc)) % buflen) + buflen) % buflen
    /\ is_ = [pos |-> 0, eof |-> FALSE]
    /\ parser_ = NewXmlParser
    /\ ppc = "idle"
    /\ via = "parse"
    /\ status = "NONE"
    /\ listener_ = NewPageListener
    /\ state_ = "Init"
    /\ page_ = NewPage
    /\ tpc = "loop"
    /\ ret = FALSE
    /\ rows = <<>>
    /\ count = 0
    /\ yields = <<>>
    /\ pageEnds = 0
    /\ scans = 0
    /\ callState = "Init"
    /\ extraCalls = 0
    /\ PoolIdle
    /\ Bz2Idle
    /\ CliIdle
    /\ MoreIdle

SpecLayouts == InitLayouts /\ [][Next]_vars

\* Events delivered to the listener so far.
Delivered == parser_.pos - pad

\* The row of revision r of page g when every field is extracted: each
\* column holds what the element of its name holds in the document.
RowOf(g, r) ==
    LET user == r.contrib \in {"user", "deleted_user"}
    IN  [title |-> <<"P">>,
         ns |-> ParseUInt64(g.ns)[1],
         id |-> ParseUInt64(g.id)[1],
         redirect |-> None,
         restrictions |-> None,
         rev_id |-> ParseUInt64(r.id)[1],
         rev_parent_id |->
             IF r.parentid = None THEN None ELSE ParseUInt64(r.parentid[1]),
         rev_timestamp |-> ParseTimestamp(r.ts)[1],
         rev_contrib_username |-> IF user THEN Some(<<"u">>) ELSE None,
         rev_contrib_id |-> IF user THEN ParseUInt64(r.cid) ELSE None,
         rev_contrib_ip |-> IF r.contrib = "ip" THEN Some(<<"i">>) ELSE None,
         rev_minor |-> r.minor,
         rev_comment |-> IF r.comment THEN Some(<<"c">>) ELSE None,
         rev_model |-> <<"m">>,
         rev_format |-> <<"f">>,
         rev_text |-> r.body,
         rev_sha1 |-> <<"s">>]

\* Page and revision of the i-th revision of a document of FieldParams.
PageAt(i) == ((i - 1) \div FieldRevs) + 1

RevAt(i) == ((i - 1) % FieldRevs) + 1

\* The rows of the document of prm when every field is extracted.
RowsOf(prm) ==
    LET gs == FieldPages(prm)
    IN  [i \in 1..(MaxFieldPages * FieldRevs) |->
            RowOf(gs[PageAt(i)], gs[PageAt(i)].revs[RevAt(i)])]

----------------------------------------------------------------------------
(* Properties.                                                             *)

\* C1: PageReader never yields the same page twice: every true return of
\* Next exposes a page no earlier true return exposed, so the true returns
\* never outnumber the </page> events delivered.
C1_NoPageTwice ==
    /\ \A i, j \in 1..Len(yields) : i < j => yields[i] # yields[j]
    /\ Len(yields) <= pageEnds

\* C2: when Transform(istream, dst) has run over a well-formed dump, the
\* rows written number the <revision> elements of the dump (a page with
\* no revision adds none).
C2_RowCount ==
    (tpc = "done" /\ WellFormed(doc) /\ buflen = kBufLen)
        => Len(rows) = CountEnds(doc, "revision")

\* Row a is not after row b: an earlier page, or the same page and no
\* later revision (pages and revisions are numbered in document order).
RowNotAfter(a, b) == a.id < b.id \/ (a.id = b.id /\ a.rev_id <= b.rev_id)

\* C3: the rows of an output file are in page-then-revision order: no
\* row comes from an earlier position of the dump than the row before it.
C3_RowOrder ==
    (WellFormed(doc) /\ buflen = kBufLen)
        => \A i \in 1..(Len(rows) - 1) : RowNotAfter(rows[i], rows[i + 1])

\* C4: a call of Next in state Init returns true (and moves to Next) only
\* when the scanner came back suspended by the PageMachine; on a parse
\* error or at the end of input with no page it returns false and moves
\* to Term.
C4_InitOutcome ==
    (tpc = "got" /\ callState = "Init")
        => /\ ret <=> status = "SUSPENDED"
           /\ ret => state_ = "Next"
           /\ ~ret => state_ = "Term"

\* C5: Term is absorbing: once Next has returned false the state is Term,
\* and from Term every call of Next returns false, leaves the state Term,
\* does not enter the scanner, and Read keeps returning the same page.
C5_TermAbsorbing ==
    /\ []((tpc \in {"got", "done"} /\ ~ret) => state_ = "Term")
    /\ [][state_ = "Term"
              => /\ state_' = "Term"
                 /\ ~ret'
                 /\ page_' = page_
                 /\ scans' = scans
                 /\ parser_' = parser_
                 /\ is_' = is_
                 /\ listener_' = listener_]_vars

\* C5: Next has been called in state Term and has returned.
C5_Witness ==
    /\ callState = "Term"
    /\ tpc = "got"
    /\ extraCalls >= 1
    /\ state_ = "Term"
    /\ ~ret

\* Number of places of q that hold x.
Occurrences(q, x) == Cardinality({i \in 1..Len(q) : q[i] = x})

\* C6: every job is returned by exactly one Dequeue to exactly one worker:
\* a job is either still queued or has been returned once, no two workers
\* hold the same job, and when Transform returns every job was returned.
C6_ExactlyOnce ==
    /\ \A j \in DOMAIN taken : Occurrences(queue_, j) + taken[j] = 1
    /\ \A w, v \in DOMAIN wpc :
           (w # v /\ wpc[w] = "convert" /\ wpc[v] = "convert")
               => got[w] # got[v]
    /\ dpc = "returned" => \A j \in DOMAIN taken : taken[j] = 1

\* C6: two workers hold jobs at once while a third job is still queued.
C6_Witness ==
    /\ dpc = "inline"
    /\ \E w, v \in DOMAIN wpc :
           w # v /\ wpc[w] = "convert" /\ wpc[v] = "convert"
    /\ queue_ # <<>>

\* C7: Dequeue returns "no value" only when the queue is closed and empty
\* as it returns; otherwise it returns the front item and removes it; it
\* does not return while the queue is open and empty.
C7_DequeueContract ==
    [][\A w \in DOMAIN wpc :
           (wpc[w] \in {"locked", "pop"} /\ wpc'[w] \in {"convert", "exited"})
               => /\ ~(~closed_ /\ queue_ = <<>>)
                  /\ IF got'[w] = None
                     THEN closed_' /\ queue_ = <<>> /\ queue_' = <<>>
                     ELSE /\ queue_ # <<>>
                          /\ got'[w] = Some(Head(queue_))
                          /\ queue_' = Tail(queue_)]_vars

\* C7: on a queue that started open and empty an item was returned, one
\* consumer got "no value" after the close, and one is still waiting.
C7_Witness ==
    /\ dpc = "produce"
    /\ taken[1] = 1
    /\ \E w, v \in DOMAIN wpc :
           /\ wpc[w] = "exited" /\ got[w] = None
           /\ wpc[v] = "blocked"

\* C8: the queue stays closed, no worker blocks in Dequeue, and the pool
\* runs to the end: as long as Transform has not returned some thread can
\* take a step (every worker gets "no value", exits and is joined).
C8_PoolRunsToReturn ==
    /\ closed_
    /\ \A w \in DOMAIN wpc : wpc[w] # "blocked"
    /\ dpc = "returned" \/ ENABLED NextPool

\* The step converts the job worker w holds, and it ends as kind.
ConvertEnds(w, kinds) ==
    /\ wpc[w] = "convert"
    /\ outcome[got[w][1]] = "pending"
    /\ outcome'[got[w][1]] \in kinds

\* Worker w is back at Dequeue, the process lives, and the queue and the
\* other threads are as they were.
OnlyJobAbandoned(w) ==
    /\ wpc'[w] = "dequeue"
    /\ ~terminated'
    /\ queue_' = queue_
    /\ \A v \in DOMAIN wpc : v # w => wpc'[v] = wpc[v]

\* C9: an exception of the writer ends only the job at hand: the worker
\* goes on to dequeue the next job and the other workers keep running.
C9_WriterFailureIsolated ==
    [][\A w \in DOMAIN wpc :
           ConvertEnds(w, {"writer_throws"}) => OnlyJobAbandoned(w)]_vars

\* C10: when a job fails because its source cannot be opened, its type is
\* Unknown or the scanner reports a parse error, the worker abandons only
\* that job, stays alive and goes on to dequeue; and when Transform
\* returns no job is left unprocessed.
C10_SkippedJobIsolated ==
    /\ [][\A w \in DOMAIN wpc :
              ConvertEnds(w, {"open_fails", "unknown_type", "parse_error"})
                  => OnlyJobAbandoned(w)]_vars
    /\ [](dpc = "returned" => \A j \in DOMAIN outcome : outcome[j] # "pending")

\* C10: a worker that has been through a failed job holds a later job,
\* and jobs are still queued.
C10_Witness ==
    /\ dpc = "inline"
    /\ \E w \in DOMAIN wpc : fails[w] /\ wpc[w] = "convert"
    /\ queue_ # <<>>

\* The rows of seq that carry page id n.
RowsWithId(seq, n) == SelectSeq(seq, LAMBDA r : r.id = n)

\* A row with the default value in the field the flaw is about.
Defaulted(row, flaw) ==
    CASE flaw = "bad_ns" -> [row EXCEPT !.ns = 0]
      [] flaw = "bad_page_id" -> [row EXCEPT !.id = 0]
      [] flaw = "bad_rev_id" -> [row EXCEPT !.rev_id = 0]
      [] flaw = "bad_parentid" -> [row EXCEPT !.rev_parent_id = None]
      [] flaw = "bad_timestamp" -> [row EXCEPT !.rev_timestamp = 0]
      [] flaw = "bad_contrib_id" -> [row EXCEPT !.rev_contrib_id = None]

\* The rows of the document of prm, whose flaw is a field that does not
\* parse, when that field is left at its default and everything else is
\* extracted as from the document without the flaw.
RowsAfterFieldFailure(prm) ==
    LET clean == RowsOf(Clean(prm))
        hit(i) == /\ PageAt(i) = prm.page
                  /\ prm.flaw \in {"bad_ns", "bad_page_id"} \/ RevAt(i) = prm.rev
    IN  [i \in 1..Len(clean) |->
            IF hit(i) THEN Defaulted(clean[i], prm.flaw) ELSE clean[i]]

\* The id the rows of page prm.page carry in the document of prm.
FlawedPageId(prm) == IF prm.flaw = "bad_page_id" THEN 0 ELSE prm.page

\* C11: when a numeric or timestamp field does not parse, the field is
\* left at its default and extraction goes on: the rows of that page are
\* those of the document without the flaw, but for the default in that
\* field.
C11_FieldFailureSkipped ==
    tpc = "done"
        => \A prm \in FieldParams :
               (prm.flaw \in FieldFlaws /\ doc = FieldDoc(prm))
                   => RowsWithId(rows, FlawedPageId(prm))
                        = RowsWithId(RowsAfterFieldFailure(prm),
                                     FlawedPageId(prm))

\* C12: no error in one page corrupts another: with a field that does
\* not parse or an element missing or not expected in page k, the rows of
\* page k + 1 are those of the document without the flaw.
C12_PageIsolation ==
    tpc = "done"
        => \A prm \in FieldParams :
               (/\ prm.flaw \in FieldFlaws \cup ShapeFlaws
                /\ prm.page < MaxFieldPages
                /\ doc = FieldDoc(prm))
                   => RowsWithId(rows, prm.page + 1)
                        = RowsWithId(RowsOf(Clean(prm)), prm.page + 1)

\* Position of a state of the adapter in Init, Main, Term.
Bz2Rank(s) == CASE s = "Init" -> 0 [] s = "Main" -> 1 [] s = "Term" -> 2

\* The file is one whole stream, as compressing plain writes it, and the
\* decoder gets its memory.
WholeStream ==
    /\ xpc # "off"
    /\ oom = "none"
    /\ \E b \in 1..MaxBlock : src = Bzip2(plain, b)

IsPrefix(s, t) == Len(s) <= Len(t) /\ s = SubSeq(t, 1, Len(s))

\* C13: reading a whole compressed stream with reads of rsize bytes gives
\* what reading the uncompressed file gives: the bytes handed over are
\* always a prefix of the uncompressed bytes, and after k reads they are
\* the first min(k * rsize, length) bytes, with end-of-stream signalled
\* exactly by the read that comes up short.  The scanner therefore gets
\* the same chunks and the same final flag as from the uncompressed file.
C13_Bz2RoundTrip ==
    WholeStream =>
        /\ IsPrefix(delivered, plain)
        /\ xpc \in {"chunk", "inflate", "return"} =>
               /\ IsPrefix(delivered \o out, plain)
               /\ Len(out) + rest = rsize
        /\ xpc = "idle" =>
               /\ Len(delivered) = Min(bzin.reads * rsize, Len(plain))
               /\ bzin.eof = (bzin.reads * rsize > Len(plain))

\* A whole stream longer than two source buffers has been read to its end
\* in several reads, with symbols kept over a top-up.
C13_Witness ==
    /\ WholeStream
    /\ xpc = "idle"
    /\ bzin.eof
    /\ bzin.reads >= 2
    /\ delivered = plain
    /\ Len(plain) = MaxPlain
    /\ Len(src) > 2 * bufsize
    /\ refilled.kept > 0

\* C14: state_ only moves forward along Init, Main, Term and never leaves
\* Term; when the decoder has reported the end of the stream or an error
\* the state is Term; a read that starts in Term hands over nothing and
\* ends the stream; a read in which the decoder reported an error ends
\* the stream, and nothing else tells of the error.
C14_StateOrder ==
    [][/\ Bz2Rank(bz_state_') >= Bz2Rank(bz_state_)
       /\ (err' \in DecoderErrors \cup {"BZ_STREAM_END"}) =>
              bz_state_' = "Term"
       /\ (xpc = "return" /\ bzCallState = "Term") =>
              (out = <<>> /\ bzin'.eof)
       /\ (xpc = "return" /\ err \in DecoderErrors) => bzin'.eof]_vars

\* A read made after the end of the stream had put the adapter in Term has
\* returned.
C14_Witness ==
    /\ xpc = "idle"
    /\ bzCallState = "Term"
    /\ bz_state_ = "Term"
    /\ err = "BZ_STREAM_END"
    /\ bzin.eof

\* C15: read_chunk returns no value or a count between 1 and the size it
\* was asked for, and when the decoder returns BZ_OK without a byte while
\* the file is not at its end, inflate_chunk goes round its loop again.
C15_NoEmptySuccess ==
    /\ result = None \/ (result[1] >= 1 /\ result[1] <= req)
    /\ (err = "BZ_OK" /\ diff = 0 /\ ~ifs.eof) => xpc = "inflate"

\* The decoder has used up its input without a byte of output and
\* inflate_chunk is about to top up the buffer again.
C15_Witness ==
    /\ err = "BZ_OK"
    /\ diff = 0
    /\ ~ifs.eof
    /\ xpc = "inflate"
    /\ bs_.avail_in = 0
    /\ ifs.pos > 0

\* C16: the symbols the decoder has consumed followed by the symbols in
\* src_buf_ it has not yet consumed are the symbols read from the file,
\* in order, and those in the buffer never exceed its capacity.
C16_InputKept ==
    xpc # "off" =>
        /\ seen \o SubSeq(src_buf_, bs_.next_in + 1,
                          bs_.next_in + bs_.avail_in)
               = SubSeq(src, 1, ifs.pos)
        /\ bs_.avail_in <= bufsize
        /\ bs_.next_in + bs_.avail_in <= bufsize

\* A top-up has moved unconsumed symbols to the start of the buffer and
\* has put new ones after them.
C16_Witness ==
    /\ refilled.kept > 0
    /\ refilled.read > 0
    /\ bs_.avail_in > 0

\* The documents of FieldParams whose revisions each give one row: no
\* field of the page itself is flawed.
OneRowEach(prm) == prm.flaw \notin {"bad_ns", "bad_page_id"}

\* C17: rev_minor is true for the revisions that have a <minor/> element
\* and false for the others: no other element of a revision (here an
\* element that is not expected) sets the flag.
C17_MinorFlag ==
    tpc = "done"
        => \A prm \in FieldParams :
               (prm.flaw \in {"none", "origin"} /\ doc = FieldDoc(prm))
                   => /\ Len(rows) = Len(RowsOf(prm))
                      /\ \A i \in 1..Len(rows) :
                             rows[i].rev_minor = RowsOf(prm)[i].rev_minor

\* Whether the <contributor> of revision r carries the attribute deleted.
HasDeleted(r) == r.contrib \in {"deleted", "deleted_user"}

\* C18: the row of a revision whose contributor carries the attribute
\* deleted has username, id and ip unset; the row of one whose contributor
\* does not has at least one of them set.
C18_ContributorColumns ==
    tpc = "done"
        => \A prm \in FieldParams :
               (OneRowEach(prm) /\ doc = FieldDoc(prm))
                   => \A i \in 1..Len(rows) :
                          LET r == FieldPages(prm)[PageAt(i)].revs[RevAt(i)]
                              unset == /\ rows[i].rev_contrib_username = None
                                       /\ rows[i].rev_contrib_id = None
                                       /\ rows[i].rev_contrib_ip = None
                          IN  HasDeleted(r) <=> unset

\* C19: the rev_text of every revision is the character data of its own
\* <text> element, with nothing of an earlier revision or of another leaf.
C19_TextOwn ==
    tpc = "done"
        => \A prm \in FieldParams :
               (OneRowEach(prm) /\ doc = FieldDoc(prm))
                   => \A i \in 1..Len(rows) :
                          rows[i].rev_text
                              = FieldPages(prm)[PageAt(i)].revs[RevAt(i)].body

\* C20: every page that a true return of Next exposes has at least one
\* revision in its list.
C20_PageHasRevision ==
    (tpc = "got" /\ ret) => Len(page_.revisions) >= 1

\* C21: for a file that can be opened, the type found is BZip2 when its
\* first three bytes are 'B', 'Z', 'h' and XML for every other content.
C21_SniffByMagic ==
    (rpc = "exited" /\ srcfile.ok /\ treated # "none") =>
        treated = (IF IsPrefix(Word.magic, srcfile.head)
                   THEN "BZip2"
                   ELSE "XML")

\* C22: the step that fixes the number of workers leaves nothreads at the
\* smaller of the configured count (or of the hardware concurrency when
\* that count is 0) and the number of jobs and goes on to start them, and
\* when the in-line worker starts, nothreads - 1 threads have been
\* created.
C22_WorkerCount ==
    [][/\ dpc = "setup" =>
              /\ ~terminated'
              /\ dpc' = "spawn"
              /\ nothreads # 0 => nothreads' = Min(nothreads, nojobs)
              /\ nothreads = 0 => nothreads' <= nojobs
       /\ (dpc = "spawn" /\ dpc' = "inline") =>
              Cardinality({w \in DOMAIN wpc : w # 0 /\ wpc'[w] # "unborn"})
                  = nothreads - 1]_vars

\* C23: when --help is among the arguments of "mw convert", Run prints
\* the usage text and returns 0.
C23_HelpExitsZero ==
    (/\ rpc = "exited"
     /\ Len(args) >= 2
     /\ args[2] = Word.convert
     /\ \E i \in 3..Len(args) : args[i] = Word.help)
        => (exitcode = 0 /\ Holds(printed, "usage"))

\* C24: when --filetype names a type, the source is treated as a file of
\* that type.
C24_FiletypeOverrides ==
    (rpc = "exited" /\ opts.filetype # "Unknown" /\ treated # "none")
        => treated = opts.filetype

\* An event is being delivered to the PageListener in this step.
Delivers == HasEvent /\ parser_'.pos = parser_.pos + 1

\* C25: the PageListener suspends the scanner, and is back in PageBegin,
\* on exactly the </page> tags that bring the depth counter back to 1;
\* the counter goes up by one on every element begin and down by one on
\* every element end, whatever the state; no other event suspends.
C25_SuspendAtPageEnd ==
    [][Delivers =>
          /\ NextEvent.t = "B" => listener_'.depth = listener_.depth + 1
          /\ NextEvent.t = "E" => listener_'.depth = listener_.depth - 1
          /\ NextEvent.t = "C" => listener_'.depth = listener_.depth
          /\ (parser_'.parsing = "SUSPENDED")
                 <=> /\ NextEvent = EE("page")
                     /\ listener_'.depth = 1
          /\ parser_'.parsing = "SUSPENDED" => listener_'.state = "PageBegin"
      ]_vars

\* The revisions among the first k items.
RevisionsIn(items, k) ==
    Cardinality({i \in 1..k : items[i].k = "revision"})

\* C26: after the header of a page every <revision> is appended to the
\* page's list of revisions, whatever uploads and
\* discussionthreadinginfos come before or after it, and what is inside
\* an upload or a discussionthreadinginfo adds no revision: after each
\* element the list holds as many revisions as have ended.
C26_EveryRevisionAppended ==
    \A prm \in ItemParams :
        doc = LayoutDoc(prm) =>
            \A k \in 0..Len(prm.items) :
                Delivered = LayoutOffset(prm, k) =>
                    Len(listener_.page.revisions) = RevisionsIn(prm.items, k)

\* What a RevisionListener is after the event e.
Revision_After(r, e) ==
    CASE e.t = "B" -> Revision_HandleElementBegin(r, e.n, e.a)
      [] e.t = "E" -> Revision_HandleElementEnd(r, e.n)
      [] e.t = "C" -> Revision_HandleCharacterData(r, e.s)

\* What a ContributorListener is after the event e.
Contributor_After(c, e) ==
    CASE e.t = "B" -> Contributor_HandleElementBegin(c, e.n, e.a)
      [] e.t = "E" -> Contributor_HandleElementEnd(c, e.n)
      [] e.t = "C" -> Contributor_HandleCharacterData(c, e.s)

\* C27: a PageListener in state Revision passes every event to its
\* RevisionListener, and leaves the state only on the </revision> that
\* closes the revision (pages are children of the root, so a revision is
\* opened at depth 2 and the counter is back at 2 after its closing tag)
\* and only when the RevisionListener is done (back in RevisionBegin); a
\* RevisionListener in state Contributor does the same with its
\* ContributorListener and </contributor>, one level deeper.
C27_Delegation ==
    [][Delivers =>
          /\ listener_.state = "Revision" =>
                /\ listener_'.rev = Revision_After(listener_.rev, NextEvent)
                /\ listener_'.state # "Revision" =>
                      /\ NextEvent = EE("revision")
                      /\ listener_'.depth = 2
                      /\ listener_'.rev.state = "RevisionBegin"
          /\ (listener_.state = "Revision"
                 /\ listener_.rev.state = "Contributor") =>
                /\ listener_'.rev.contrib =
                       Contributor_After(listener_.rev.contrib, NextEvent)
                /\ listener_'.rev.state # "Contributor" =>
                      /\ NextEvent = EE("contributor")
                      /\ listener_'.depth = 3
                      /\ listener_'.rev.contrib.state = "ContributorBegin"
      ]_vars

\* The revision a RevisionListener holds after a revision r of a layout
\* document when every child is stored in its own field (deleted aside).
LayoutRevision(r) ==
    [id |-> 4,
     parent_id |-> IF r.parentid THEN Some(7) ELSE None,
     timestamp |-> ParseTimestamp(r.ts)[1],
     contributor |->
         [username |-> IF "username" \in r.leaves THEN Some(<<"u">>) ELSE None,
          id |-> IF "id" \in r.leaves THEN Some(5) ELSE None,
          ip |-> IF "ip" \in r.leaves THEN Some(<<"i">>) ELSE None,
          deleted |-> FALSE],
     minor |-> r.minor,
     comment |-> IF r.comment THEN Some(<<"c">>) ELSE None,
     model |-> <<"m">>, format |-> <<"f">>, text |-> <<"t">>,
     sha1 |-> <<"s">>]

\* C28: for each of the eight combinations of <parentid>, <minor/> and
\* <comment> in a revision that is otherwise complete and in schema
\* order, whatever combination the revision before it had, the
\* RevisionListener is back in RevisionBegin after </revision>, each
\* child that is present is stored in its own field, and parent_id,
\* minor and comment are unset (minor false) when their element is
\* absent.
C28_OptionalChildren ==
    \A prm \in OptionalParams :
        doc = LayoutDoc(prm) =>
            \A k \in 1..Len(prm.items) :
                Delivered = LayoutOffset(prm, k) =>
                    /\ listener_.rev.state = "RevisionBegin"
                    /\ Len(listener_.page.revisions) = k
                    /\ listener_.page.revisions[k]
                           = LayoutRevision(prm.items[k].r)

\* A revision with <comment> only has ended after one with all three.
C28_Witness ==
    \E prm \in OptionalParams :
        /\ doc = LayoutDoc(prm)
        /\ prm.items[1].r.parentid /\ prm.items[1].r.minor
        /\ prm.items[1].r.comment
        /\ ~prm.items[2].r.parentid /\ ~prm.items[2].r.minor
        /\ prm.items[2].r.comment
        /\ Delivered = LayoutOffset(prm, 2)
        /\ listener_.page.revisions[2].comment = Some(<<"c">>)

\* The event delivered last is e.
JustDelivered(e) == Delivered \in 1..Len(doc) /\ doc[Delivered] = e

\* C29: for every subset of the leaves username, id, ip inside
\* <contributor>, in that order (none of them, with or without the
\* deleted attribute, up to all three), the ContributorListener stores
\* the leaves that are present and no others, is in state IP after the
\* closing tag of an id that parses, and is back in ContributorBegin
\* after </contributor>, where the revision has taken the same leaves.
C29_ContributorLeaves ==
    \A prm \in ContributorParams :
        doc = LayoutDoc(prm) =>
            LET c == listener_.rev.contrib
                want == LayoutRevision(prm.items[1].r).contributor
            IN  /\ (JustDelivered(EE("id"))
                       /\ listener_.rev.state = "Contributor") =>
                       /\ c.state = "IP"
                       /\ c.contributor.id = Some(5)
                /\ JustDelivered(EE("contributor")) =>
                       /\ c.state = "ContributorBegin"
                       /\ [c.contributor EXCEPT !.deleted = FALSE] = want
                       /\ [listener_.rev.revision.contributor
                              EXCEPT !.deleted = FALSE] = want

\* A contributor with <id> and <ip> and no <username> has ended.
C29_Witness ==
    \E prm \in ContributorParams :
        /\ doc = LayoutDoc(prm)
        /\ prm.items[1].r.leaves = {"id", "ip"}
        /\ JustDelivered(EE("contributor"))
        /\ listener_.rev.revision.contributor.ip = Some(<<"i">>)
        /\ listener_.rev.revision.contributor.id = Some(5)

\* Whether a list of name/value pairs has an attribute of this name.
HasAttribute(attrs, name) ==
    \E i \in 1..Len(attrs) : i % 2 = 1 /\ attrs[i] = name

\* C30: the ContributorListener has deleted = true exactly when the
\* <contributor> tag has an attribute named deleted, whatever its value,
\* and false when no attribute has that name: so it is after the opening
\* tag, and so the revision holds it after </contributor>.
C30_DeletedByName ==
    \A prm \in ContributorParams :
        doc = LayoutDoc(prm) =>
            LET attrs == prm.items[1].r.attrs
            IN  /\ JustDelivered(EB("contributor", attrs)) =>
                       listener_.rev.contrib.contributor.deleted
                           = HasAttribute(attrs, "deleted")
                /\ JustDelivered(EE("contributor")) =>
                       listener_.rev.revision.contributor.deleted
                           = HasAttribute(attrs, "deleted")

\* C31: Parser::Resume does not read while XML_ResumeParser runs, returns
\* true at once when the parser suspends again and false when it reports
\* an error, and goes on to Parse when it reports OK; Parse then returns
\* only at the end of the file or when the status is no longer OK; and a
\* true return means that the parser was suspended or that the whole
\* input was parsed without an error.
C31_Resume ==
    [][/\ (ppc = "idle" /\ state_ = "Next" /\ scans' = scans + 1) =>
              /\ is_' = is_
              /\ tpc' = "got" => (~ret' /\ status' = "ERROR")
       /\ (callState = "Next" /\ ppc = "events" /\ via = "resume") =>
              /\ is_' = is_
              /\ ppc' # "events" =>
                     CASE status' = "SUSPENDED" -> tpc' = "got" /\ ret'
                       [] status' = "ERROR" -> tpc' = "got" /\ ~ret'
                       [] status' = "OK" -> ppc' = "read" /\ tpc' = tpc
       /\ (callState = "Next" /\ ppc # "idle" /\ via = "parse"
               /\ tpc' = "got") =>
              (status' # "OK" \/ is_'.eof)
       /\ (callState = "Next" /\ ppc # "idle" /\ tpc' = "got" /\ ret') =>
              \/ status' = "SUSPENDED"
              \/ /\ status' = "OK"
                 /\ is_'.eof
                 /\ parser_'.parsing = "FINISHED"
                 /\ parser_'.closed /\ ~parser_'.err
      ]_vars

\* A Resume whose parser reported OK went on reading and returned true on
\* the next suspension.
C31_Witness ==
    /\ callState = "Next"
    /\ tpc = "got"
    /\ ret
    /\ via = "parse"
    /\ status = "SUSPENDED"

\* The queue on its own under a scheduler that lets every thread that can
\* take a step of Dequeue or of its loop take it.  Wake-ups without a
\* notification may happen and are not promised, and the producer is free
\* to stop.
SpecQueueFair ==
    /\ SpecQueue
    /\ \A w \in 0..(MaxConsumers - 1) :
           /\ WF_vars(Dequeue_Lock(w))
           /\ WF_vars(Dequeue_Front(w))
           /\ WF_vars(Dequeue_Pop(w))
           /\ WF_vars(Worker_Convert(w))

\* C32: a consumer that waits in Dequeue on the empty queue when the queue
\* is closed (Close was called during its wait) eventually leaves Dequeue
\* with "no value", unless the process has been ended meanwhile.
C32_CloseWakes ==
    \A w \in 0..(MaxConsumers - 1) :
        (wpc[w] = "blocked" /\ closed_ /\ queue_ = <<>>)
            ~> (terminated \/ (wpc[w] = "exited" /\ got[w] = None))

-----------------------------------------------------------------------------
(* The adapter read through its get area (bz2.cc): sbumpc, which calls     *)
(* underflow when the get area is empty, and sgetn, which calls xsgetn, on *)
(* one ibz2streambuf, over a file whose device may fail.                   *)

\* Bounds: uncompressed bytes (also the largest block), capacity of
\* get_buf_ and src_buf_ (kBufSize of bz2.h:20, scaled; a block of a real
\* file decodes to many times kBufSize), size of a sgetn, and reads of the
\* file before its device fails.
MaxGetPlain == 5
MaxGetBuf == 3
MaxGetRead == 2
MaxFault == 2

\* Whole streams of one or more blocks.
GetFiles ==
    {[plain |-> Plain(n), src |-> Bzip2(Plain(n), b)] :
        n \in 0..MaxGetPlain, b \in 1..MaxGetPlain}

\* is_.good(): neither eofbit nor failbit nor badbit is set.
Good == ~ifs.eof /\ ~ifsbad

\* inflate_chunk(ptr, size), one round of its loop: the top-up of src_buf_
\* (a read of the file, which sets badbit when the device fails), the call
\* of the decoder with avail_out = size, and the switch on its code.
Inflate_Round(size) ==
    LET topup == bs_.avail_in < bufsize /\ Good
        ioerr == topup /\ fault # None /\ srcreads >= fault[1]
        want == bufsize - bs_.avail_in
        n == IF ioerr THEN 0 ELSE Min(want, Len(src) - ifs.pos)
        new == SubSeq(src, ifs.pos + 1, ifs.pos + n)
        buf == IF topup
               THEN Refill(src_buf_, bs_.next_in, bs_.avail_in, new)
               ELSE src_buf_
        is1 == IF topup /\ ~ioerr
               THEN [pos |-> ifs.pos + n, eof |-> n < want]
               ELSE ifs
        next_in == IF topup THEN 0 ELSE bs_.next_in
        avail_in == IF topup THEN bs_.avail_in + n ELSE bs_.avail_in
        in == SubSeq(buf, next_in + 1, next_in + avail_in)
        r == BZ2_bzDecompress(bs_.dec, in, size, <<>>, 0)
        d == Len(r.out)
        after == [next_in |-> next_in + r.used,
                  avail_in |-> avail_in - r.used,
                  dec |-> r.dec]
        ended == [after EXCEPT !.dec = BZ2_bzDecompressEnd(@)]
        todo == CASE r.err = "BZ_OK" -> Inflate_Ok(d, is1.eof)
                  [] r.err = "BZ_STREAM_END" -> "finish"
                  [] OTHER -> "fail"
    IN  [topup |-> topup,
         src_buf_ |-> buf,
         ifs |-> is1,
         ifsbad |-> ifsbad \/ ioerr,
         seen |-> SubSeq(in, 1, r.used),
         err |-> r.err,
         out |-> r.out,
         todo |-> todo,
         value |-> IF todo = "return" \/ (todo = "finish" /\ d > 0)
                   THEN Some(d)
                   ELSE None,
         bs_ |-> IF todo \in {"finish", "fail"} THEN ended ELSE after,
         state_ |-> CASE todo = "finish" -> "Term"
                      [] todo = "fail" -> Inflate_Error
                      [] OTHER -> bz_state_]

\* sbumpc with bytes in the get area: the byte at gptr() is returned and
\* gptr() advances; no virtual function is called.
Sbumpc_Buffered ==
    /\ xpc = "idle"
    /\ ~geof
    /\ mode \in {"bytes", "mixed"}
    /\ get_.gptr < get_.egptr
    /\ delivered' = Append(delivered, get_.buf[get_.gptr + 1])
    /\ get_' = [get_ EXCEPT !.gptr = @ + 1]
    /\ UNCHANGED <<plain, src, oom, rsize, bufsize, ifs, src_buf_, bs_,
                   bz_state_, bzin, xpc, rest, out, seen, err, diff, result,
                   req, bzCallState, refilled>>
    /\ UNCHANGED <<ifsbad, fault, srcreads, mode, gop, gsize, gret, geof>>
    /\ UNCHANGED <<readerVars, poolVars, cliVars, siteVars, fileVars, scanVars>>

\* sbumpc with an empty get area: uflow calls underflow, which returns
\* eof at once unless is_.good(), and else calls read_chunk(eback(),
\* gptr() - eback()).
Underflow_Call ==
    /\ xpc = "idle"
    /\ ~geof
    /\ mode \in {"bytes", "mixed"}
    /\ get_.gptr >= get_.egptr
    /\ IF ~Good
       THEN /\ geof' = TRUE
            /\ UNCHANGED <<xpc, rest, out, bzCallState, gop>>
       ELSE /\ rest' = get_.gptr
            /\ out' = <<>>
            /\ bzCallState' = bz_state_
            /\ gop' = "underflow"
            /\ xpc' = "chunk"
            /\ UNCHANGED geof
    /\ UNCHANGED <<plain, src, oom, rsize, bufsize, ifs, src_buf_, bs_,
                   bz_state_, bzin, delivered, seen, err, diff, result, req,
                   refilled>>
    /\ UNCHANGED <<get_, ifsbad, fault, srcreads, mode, gsize, gret>>
    /\ UNCHANGED <<readerVars, poolVars, cliVars, siteVars, fileVars, scanVars>>

\* sgetn(ptr, n), which is xsgetn(ptr, n), up to its do-while loop: the
\* copy from the get area.
Sgetn_Call ==
    /\ xpc = "idle"
    /\ ~geof
    /\ mode \in {"bulk", "mixed"}
    /\ \E n \in 1..MaxGetRead :
           LET avail == get_.egptr - get_.gptr
               length == IF get_.gptr < get_.egptr THEN Min(avail, n) ELSE 0
           IN  /\ out' = SubSeq(get_.buf, get_.gptr + 1, get_.gptr + length)
               /\ get_' = [get_ EXCEPT !.gptr = @ + length]
               /\ rest' = n - length
               /\ gsize' = n
    /\ bzCallState' = bz_state_
    /\ gop' = "xsgetn"
    /\ xpc' = "chunk"
    /\ UNCHANGED <<plain, src, oom, rsize, bufsize, ifs, src_buf_, bs_,
                   bz_state_, bzin, delivered, seen, err, diff, result, req,
                   refilled>>
    /\ UNCHANGED <<ifsbad, fault, srcreads, mode, gret, geof>>
    /\ UNCHANGED <<readerVars, poolVars, cliVars, siteVars, fileVars, scanVars>>

\* inflate_chunk(ptr, rest), one round of its loop.  A value returned goes
\* to underflow, or to the loop of xsgetn.
Get_Inflate ==
    /\ xpc = "inflate"
    /\ LET r == Inflate_Round(rest)
           d == Len(r.out)
       IN  /\ src_buf_' = r.src_buf_
           /\ ifs' = r.ifs
           /\ ifsbad' = r.ifsbad
           /\ srcreads' = IF r.topup THEN srcreads + 1 ELSE srcreads
           /\ seen' = seen \o r.seen
           /\ err' = r.err
           /\ diff' = d
           /\ bs_' = r.bs_
           /\ bz_state_' = r.state_
           /\ IF r.todo = "loop"
              THEN UNCHANGED <<xpc, result, req, rest, out>>
              ELSE /\ result' = r.value
                   /\ req' = rest
                   /\ IF r.value = None
                      THEN /\ xpc' = "return"
                           /\ UNCHANGED <<rest, out>>
                      ELSE /\ out' = out \o r.out
                           /\ rest' = rest - d
                           /\ xpc' = IF gop = "xsgetn"
                                        /\ Xsgetn_Again(rest - d)
                                     THEN "chunk"
                                     ELSE "return"
    /\ UNCHANGED <<plain, src, oom, rsize, bufsize, bzin, delivered,
                   bzCallState, refilled>>
    /\ UNCHANGED <<get_, fault, mode, gop, gsize, gret, geof>>
    /\ UNCHANGED <<readerVars, poolVars, cliVars, siteVars, fileVars, scanVars>>

\* The call returns.  underflow sets the get area to the bytes read and
\* uflow returns the first of them, or the get area is emptied and eof is
\* returned; xsgetn returns size - rest, and a count below size tells the
\* client that the stream has ended.
Get_Return ==
    /\ xpc = "return"
    /\ IF gop = "underflow"
       THEN /\ IF result # None
               THEN /\ get_' = [buf |-> [i \in 1..Len(get_.buf) |->
                                            IF i <= Len(out) THEN out[i]
                                            ELSE get_.buf[i]],
                                gptr |-> 1,
                                egptr |-> result[1]]
                    /\ delivered' = Append(delivered, out[1])
                    /\ UNCHANGED geof
               ELSE /\ get_' = [get_ EXCEPT !.gptr = 0, !.egptr = 0]
                    /\ geof' = TRUE
                    /\ UNCHANGED delivered
            /\ UNCHANGED gret
       ELSE /\ gret' = gsize - rest
            /\ delivered' = delivered \o out
            /\ geof' = (gsize - rest < gsize)
            /\ UNCHANGED get_
    /\ gop' = "none"
    /\ xpc' = "idle"
    /\ UNCHANGED <<plain, src, oom, rsize, bufsize, ifs, src_buf_, bs_,
                   bz_state_, bzin, rest, out, seen, err, diff, result, req,
                   bzCallState, refilled>>
    /\ UNCHANGED <<ifsbad, fault, srcreads, mode, gsize>>
    /\ UNCHANGED <<readerVars, poolVars, cliVars, siteVars, fileVars, scanVars>>

\* The adapter after its construction over a file at position 0:
\* setg(begin, end, end).  A fault of 0 is a stream that is handed over in
\* a failed state.
InitGet ==
    /\ \E f \in GetFiles : plain = f.plain /\ src = f.src
    /\ oom = "none"
    /\ rsize = 1
    /\ bufsize \in 2..MaxGetBuf
    /\ ifs = [pos |-> 0, eof |-> FALSE]
    /\ src_buf_ = [i \in 1..bufsize |-> Symbol["zero"]]
    /\ bs_ = [next_in |-> 0, avail_in |-> 0, dec |-> NewDecoder(TRUE)]
    /\ bz_state_ = "Init"
    /\ bzin = [eof |-> FALSE, reads |-> 0]
    /\ xpc = "idle"
    /\ rest = 0
    /\ out = <<>>
    /\ delivered = <<>>
    /\ seen = <<>>
    /\ err = "none"
    /\ diff = 0
    /\ result = None
    /\ req = 0
    /\ bzCallState = "Init"
    /\ refilled = [kept |-> 0, read |-> 0]
    /\ get_ = [buf |-> [i \in 1..bufsize |-> 0], gptr |-> bufsize,
               egptr |-> bufsize]
    /\ fault \in {None} \cup {Some(k) : k \in 0..MaxFault}
    /\ ifsbad = (fault = Some(0))
    /\ srcreads = 0
    /\ mode \in {"bytes", "bulk", "mixed"}
    /\ gop = "none"
    /\ gsize = 0
    /\ gret = 0
    /\ geof = FALSE
    /\ ReaderIdle
    /\ PoolIdle
    /\ CliIdle
    /\ SiteIdle
    /\ FilesIdle
    /\ ScanIdle

NextGet ==
    \/ Sbumpc_Buffered
    \/ Underflow_Call
    \/ Sgetn_Call
    \/ Read_Chunk
    \/ Get_Inflate
    \/ Get_Return

SpecGet == InitGet /\ [][NextGet]_vars

\* inflate_chunk is in a round of its loop that changes nothing and goes
\* round again: the call never returns.
Stuck ==
    /\ xpc = "inflate"
    /\ LET r == Inflate_Round(rest)
       IN  /\ r.todo = "loop"
           /\ ~r.topup
           /\ r.bs_ = bs_

\* C33: read one byte at a time, a whole stream is delivered completely
\* before the end of the stream is reported, as it is by bulk reads: when
\* sbumpc returns eof, every decoded byte has been delivered, also when
\* the file was at its end before the decoder was drained.
C33_BytewiseComplete ==
    (mode = "bytes" /\ fault = None /\ geof) => delivered = plain

\* C34: every xsgetn(ptr, n) terminates, returns a count in 0..n, and
\* leaves state_ alone unless the decoder has ended (the end of its
\* stream, an error, or nothing left of a file that is at its end), also
\* when the get area serves the whole request and when the file's stream
\* has failed without being at its end.
C34_XsgetnTerminates ==
    [][(gop' = "xsgetn" \/ gop = "xsgetn") =>
           /\ ~Stuck'
           /\ gop' = "none" => gret' \in 0..gsize
           /\ (bz_state_ # "Term" /\ bz_state_' = "Term") =>
                  \/ err' \in DecoderErrors \cup {"BZ_STREAM_END"}
                  \/ /\ err' = "BZ_OK"
                     /\ bs_'.dec.pending = <<>>
                     /\ bs_'.avail_in = 0
      ]_vars

\* What a reader yields that is given the whole file as one chunk: Walk
\* and every Resume end at a </page>, and the Resume after the last one
\* ends with an error of expat, which has finished.  A dump without a
\* page makes Walk return true once, with no </page> delivered.
WholeFileYields(d) ==
    LET n == CountEnds(d, "page")
    IN  IF n = 0 THEN <<0>> ELSE [i \in 1..n |-> i]

\* C35: the true returns of Next and the pages they expose do not depend
\* on the chunk size: whatever buflen is, and wherever the chunk
\* boundaries fall, the run over a well-formed dump yields what the run
\* yields that reads the file as one chunk.
C35_ChunkIndependent ==
    (tpc = "done" /\ WellFormed(doc)) => yields = WholeFileYields(doc)

\* The opening tag of the element named n that ends at event e of d (the
\* elements of a well-formed dump do not hold elements of their own name).
ElementStart(d, e, n) ==
    CHOOSE a \in 1..e :
        /\ d[a].t = "B" /\ d[a].n = n
        /\ \A j \in (a + 1)..e : ~(d[j].t = "B" /\ d[j].n = n)

\* Whether the events a..e of d hold an opening tag named n.
HasElement(d, a, e, n) == \E j \in a..e : d[j].t = "B" /\ d[j].n = n

\* The event that ends revision k of the page that ends at event e of d.
RevisionEnd(d, e, k) ==
    LET a == ElementStart(d, e, "page")
        ends == {j \in a..e : d[j] = EE("revision")}
    IN  CHOOSE j \in ends : Cardinality({i \in ends : i <= j}) = k

\* C36: optional values do not leak from one element of a well-formed
\* dump into the next: at each </page>, the page has a redirect and
\* restrictions exactly when its own element has them, as many revisions
\* as its own element has, and each of these has parent_id, comment,
\* minor, and the contributor's username and ip exactly when its own
\* element has them, whatever the page and the revision before had.
C36_NoLeak ==
    (WellFormed(doc) /\ JustDelivered(EE("page"))) =>
        LET e == Delivered
            a == ElementStart(doc, e, "page")
            g == listener_.page
        IN  /\ g.redirect # None <=> HasElement(doc, a, e, "redirect")
            /\ g.restrictions # None <=> HasElement(doc, a, e, "restrictions")
            /\ Len(g.revisions)
                   = Cardinality({j \in a..e : doc[j] = EE("revision")})
            /\ \A k \in 1..Len(g.revisions) :
                   LET y == RevisionEnd(doc, e, k)
                       x == ElementStart(doc, y, "revision")
                       r == g.revisions[k]
                   IN  /\ r.parent_id # None
                              <=> HasElement(doc, x, y, "parentid")
                       /\ r.comment # None <=> HasElement(doc, x, y, "comment")
                       /\ r.minor <=> HasElement(doc, x, y, "minor")
                       /\ r.contributor.username # None
                              <=> HasElement(doc, x, y, "username")
                       /\ r.contributor.ip # None
                              <=> HasElement(doc, x, y, "ip")

\* The second page has ended: it has no <redirect> and no <restrictions>
\* and its only revision has no <parentid>, <minor/> or <comment>, while
\* the page before it had both and ended with a revision that had all.
C36_Witness ==
    /\ WellFormed(doc)
    /\ JustDelivered(EE("page"))
    /\ pageEnds = 2
    /\ LET e == Delivered
           a == ElementStart(doc, e, "page")
       IN  /\ ~HasElement(doc, a, e, "redirect")
           /\ HasElement(doc, 1, a, "redirect")
           /\ Len(listener_.page.revisions) = 1
           /\ ~HasElement(doc, a, e, "parentid")
           /\ doc[a - 1] = EE("page")
           /\ doc[a - 2] = EE("revision")
           /\ HasElement(doc, ElementStart(doc, a - 2, "revision"), a - 2,
                         "parentid")

\* C37: whatever the configured count, the hardware concurrency and the
\* number of jobs (at least one), nothreads - 1 does not wrap in size_t,
\* the spawning loop ends (its variable never passes nothreads), and at
\* most nojobs - 1 threads are created.
C37_ThreadCountNoWrap ==
    [][/\ dpc = "setup" =>
              /\ SizeSub(nothreads', 1) = nothreads' - 1
              /\ ~terminated'
       /\ dpc' = "spawn" => it' <= nothreads'
       /\ Cardinality({w \in DOMAIN wpc' : w # 0 /\ wpc'[w] # "unborn"})
              <= nojobs - 1]_vars

-----------------------------------------------------------------------------
(* SiteInfoListener (wiki.cc), given the events of a <siteinfo> element    *)
(* with any of its children.                                               *)

\* The children of <siteinfo> that are extracted, in the order of the
\* schema, the field of SiteInfo each belongs to, and the text each holds
\* in the documents below.
SiteInfoChildren == <<"sitename", "dbname", "base", "generator", "case">>

SiteInfoField ==
    [sitename |-> "sitename", dbname |-> "dbname", base |-> "base",
     generator |-> "generator", case |-> "case_"]

SiteInfoText ==
    [sitename |-> <<"W">>, dbname |-> <<"w">>, base |-> <<"b">>,
     generator |-> <<"g">>, case |-> <<"c">>]

\* A dump with the children in has, in schema order, and with or without
\* the <namespaces> that follow them.
SiteInfoDoc(has, ns) ==
    <<EB("mediawiki", <<>>), EB("siteinfo", <<>>)>>
        \o Flatten([i \in 1..Len(SiteInfoChildren) |->
                       IF SiteInfoChildren[i] \in has
                       THEN Leaf(SiteInfoChildren[i],
                                 SiteInfoText[SiteInfoChildren[i]])
                       ELSE <<>>])
        \o (IF ns
            THEN <<EB("namespaces", <<>>)>> \o Leaf("namespace", <<"n">>)
                     \o <<EE("namespaces")>>
            ELSE <<>>)
        \o <<EE("siteinfo"), EE("mediawiki")>>

SiteInfoDocuments ==
    {SiteInfoDoc(has, ns) :
        has \in SUBSET {SiteInfoChildren[i] : i \in 1..Len(SiteInfoChildren)},
        ns \in BOOLEAN}

SiteInfo_HandleCharacterData(s, text) ==
    IF s.state_ \in {"SiteName", "DBName", "Base", "Generator", "Case"}
    THEN [s EXCEPT !.text_ = @ \o text]
    ELSE s

\* case State::Case of HandleElementBegin and what it falls through to.
SiteInfo_Begin_Case(s, elem) ==
    IF elem = "case"
    THEN [s EXCEPT !.text_ = <<>>]
    ELSE [s EXCEPT !.state_ = "SiteInfoEnd"]

SiteInfo_Begin_Generator(s, elem) ==
    IF elem = "generator"
    THEN [s EXCEPT !.text_ = <<>>]
    ELSE SiteInfo_Begin_Case(s, elem)

SiteInfo_Begin_Base(s, elem) ==
    IF elem = "base"
    THEN [s EXCEPT !.text_ = <<>>]
    ELSE SiteInfo_Begin_Generator(s, elem)

SiteInfo_Begin_DBName(s, elem) ==
    IF elem = "dbname"
    THEN [s EXCEPT !.text_ = <<>>]
    ELSE SiteInfo_Begin_Base(s, elem)

SiteInfo_Begin_SiteName(s, elem) ==
    IF elem = "sitename"
    THEN [s EXCEPT !.text_ = <<>>]
    ELSE SiteInfo_Begin_DBName(s, elem)

SiteInfo_HandleElementBegin(s, elem) ==
    CASE s.state_ = "SiteInfoBegin" ->
            IF elem = "siteinfo"
            THEN [s EXCEPT !.state_ = "SiteName", !.info_ = NewSiteInfo]
            ELSE s
      [] s.state_ = "SiteName" -> SiteInfo_Begin_SiteName(s, elem)
      [] s.state_ = "DBName" -> SiteInfo_Begin_DBName(s, elem)
      [] s.state_ = "Base" -> SiteInfo_Begin_Base(s, elem)
      [] s.state_ = "Generator" -> SiteInfo_Begin_Generator(s, elem)
      [] s.state_ = "Case" -> SiteInfo_Begin_Case(s, elem)
      [] s.state_ = "SiteInfoEnd" -> [s EXCEPT !.state_ = "SiteInfoEnd"]

SiteInfo_HandleElementEnd(s, elem) ==
    CASE s.state_ = "SiteName" ->
            [s EXCEPT !.info_.sitename = s.text_, !.state_ = "DBName"]
      [] s.state_ = "DBName" ->
            [s EXCEPT !.info_.dbname = s.text_, !.state_ = "Base"]
      [] s.state_ = "Base" ->
            [s EXCEPT !.info_.base = s.text_, !.state_ = "Generator"]
      [] s.state_ = "Generator" ->
            [s EXCEPT !.info_.generator = s.text_, !.state_ = "Case"]
      [] s.state_ = "Case" ->
            [s EXCEPT !.info_.case_ = s.text_, !.state_ = "SiteInfoEnd"]
      [] s.state_ = "SiteInfoEnd" ->
            IF elem = "siteinfo"
            THEN [s EXCEPT !.state_ = "SiteInfoBegin"]
            ELSE s
      [] OTHER -> s

\* The scanner delivers the next event of the document to the listener.
SiteInfo_Begin ==
    /\ sitepos < Len(sitedoc)
    /\ sitedoc[sitepos + 1].t = "B"
    /\ site_' = SiteInfo_HandleElementBegin(site_, sitedoc[sitepos + 1].n)
    /\ sitepos' = sitepos + 1
    /\ UNCHANGED sitedoc
    /\ UNCHANGED <<readerVars, poolVars, bzVars, cliVars, getVars, fileVars, scanVars>>

SiteInfo_End ==
    /\ sitepos < Len(sitedoc)
    /\ sitedoc[sitepos + 1].t = "E"
    /\ site_' = SiteInfo_HandleElementEnd(site_, sitedoc[sitepos + 1].n)
    /\ sitepos' = sitepos + 1
    /\ UNCHANGED sitedoc
    /\ UNCHANGED <<readerVars, poolVars, bzVars, cliVars, getVars, fileVars, scanVars>>

SiteInfo_CharacterData ==
    /\ sitepos < Len(sitedoc)
    /\ sitedoc[sitepos + 1].t = "C"
    /\ site_' = SiteInfo_HandleCharacterData(site_, sitedoc[sitepos + 1].s)
    /\ sitepos' = sitepos + 1
    /\ UNCHANGED sitedoc
    /\ UNCHANGED <<readerVars, poolVars, bzVars, cliVars, getVars, fileVars, scanVars>>

InitSite ==
    /\ sitedoc \in SiteInfoDocuments
    /\ sitepos = 0
    /\ site_ = NewSiteInfoListener
    /\ ReaderIdle
    /\ PoolIdle
    /\ Bz2Idle
    /\ CliIdle
    /\ GetIdle
    /\ FilesIdle
    /\ ScanIdle

NextSite ==
    \/ SiteInfo_Begin
    \/ SiteInfo_End
    \/ SiteInfo_CharacterData

SpecSite == InitSite /\ [][NextSite]_vars

\* Whether child c has ended among the events delivered.
SiteChildEnded(c) == \E j \in 1..sitepos : sitedoc[j] = EE(c)

\* C38: the text of each of sitename, dbname, base, generator and case is
\* stored in the field of its own name, also when children before it are
\* absent, and the field of an absent child stays empty.
C38_OwnField ==
    \A i \in 1..Len(SiteInfoChildren) :
        LET c == SiteInfoChildren[i]
        IN  site_.info_[SiteInfoField[c]]
                = IF SiteChildEnded(c) THEN SiteInfoText[c] ELSE <<>>

-----------------------------------------------------------------------------
(* MakeTargetFiles (main.cc).  A file name is the sequence of its parts    *)
(* between dots: <<"a", "xml", "bz2">> is a.xml.bz2 and <<"", "bz2">> is   *)
(* .bz2.  The directory dst, which every target shares, is left out.       *)

\* Source files of one call.
MaxFiles == 2

\* The names tried: one stem with several extensions, with and without a
\* compression suffix, names that look like targets, and a hidden file.
FileNames ==
    {<<"a", "xml">>, <<"a", "xml", "bz2">>, <<"a", "txt", "bzip2">>,
     <<"a">>, <<"a", "bz2">>, <<"a", "bz2", "bz2">>, <<"a", "part-0">>,
     <<"a", "part-0", "xml">>, <<"a", "part-1", "parquet">>,
     <<"a", "b", "xml">>, <<"b", "xml">>, <<"", "bz2">>}

\* fs::path::extension() of a file name, None when it has none: the part
\* after the last dot, unless that dot is the first character of the name
\* or the name is "." or "..".
Extension(f) ==
    IF Len(f) >= 2 /\ ~(Len(f) = 2 /\ f[1] = "")
                   /\ f # <<"", "", "">>
    THEN Some(f[Len(f)])
    ELSE None

\* fs::path::stem(): the name without its extension.
Stem(f) == IF Extension(f) = None THEN f ELSE SubSeq(f, 1, Len(f) - 1)

\* ".part-" + std::to_string(count), as a part of a name.
PartOf(k) ==
    <<"part-0", "part-1", "part-2", "part-3", "part-4">>[k + 1]

\* The name with a compression suffix taken off.
Uncompressed(f) ==
    IF Extension(f) \in {Some("bz2"), Some("bzip2")} THEN Stem(f) ELSE f

\* A count that is 0 for every source.
DupCount_Zero(d, key) == 0

\* dups.insert({stem, 0}) and ++it->second: 0 for a new stem, one more
\* than the count stored for a stem that is there.
DupCount(d, key) ==
    IF \E x \in d : x.stem = key
    THEN (CHOOSE x \in d : x.stem = key).count + 1
    ELSE 0

\* One round of the loop over srcs.
MakeTargetFiles_Step ==
    /\ ~made
    /\ Len(dsts) < Len(srcs)
    /\ LET filename == Uncompressed(srcs[Len(dsts) + 1])
           key == Stem(filename)
           k == DupCount(dups, key)
       IN  /\ dups' = {x \in dups : x.stem # key}
                          \cup {[stem |-> key, count |-> k]}
           /\ dsts' = Append(dsts,
                             Stem(filename) \o <<PartOf(k), "parquet">>)
    /\ UNCHANGED <<srcs, made>>
    /\ UNCHANGED <<readerVars, poolVars, bzVars, cliVars, getVars, siteVars, scanVars>>

\* return dsts.
MakeTargetFiles_Return ==
    /\ ~made
    /\ Len(dsts) = Len(srcs)
    /\ made' = TRUE
    /\ UNCHANGED <<srcs, dups, dsts>>
    /\ UNCHANGED <<readerVars, poolVars, bzVars, cliVars, getVars, siteVars, scanVars>>

\* MakeTargetFiles(dst, srcs) is called with the files of a directory.
InitFiles ==
    /\ srcs \in SeqUpTo(FileNames, MaxFiles)
    /\ dups = {}
    /\ dsts = <<>>
    /\ made = FALSE
    /\ ReaderIdle
    /\ PoolIdle
    /\ Bz2Idle
    /\ CliIdle
    /\ GetIdle
    /\ SiteIdle
    /\ ScanIdle

NextFiles == MakeTargetFiles_Step \/ MakeTargetFiles_Return

SpecFiles == InitFiles /\ [][NextFiles]_vars

\* The sources before source i whose name without a compression suffix
\* has the stem of source i.
EarlierSameStem(i) ==
    {j \in 1..(i - 1) : Stem(Uncompressed(srcs[j]))
                            = Stem(Uncompressed(srcs[i]))}

\* C39: the targets derived so far are pairwise distinct, and each is its
\* source's name, without a trailing .bz2 or .bzip2 and without the
\* extension that is then the last, followed by .part-<k>.parquet with k
\* the number of earlier sources of the same stem.
C39_DistinctTargets ==
    /\ \A i, j \in 1..Len(dsts) : i # j => dsts[i] # dsts[j]
    /\ \A i \in 1..Len(dsts) :
           dsts[i] = Stem(Uncompressed(srcs[i]))
                         \o <<PartOf(Cardinality(EarlierSameStem(i))),
                              "parquet">>

\* a.xml.bz2 and a.txt.bzip2 have been given a.part-0.parquet and
\* a.part-1.parquet.
C39_Witness ==
    /\ made
    /\ srcs = <<(<<"a", "xml", "bz2">>), (<<"a", "txt", "bzip2">>)>>
    /\ dsts = <<(<<"a", "part-0", "parquet">>), (<<"a", "part-1", "parquet">>)>>

\* Events delivered to the listener when expat has processed p bytes.
EventsAt(p) == IF p > pad THEN p - pad ELSE 0

====
